---- MODULE Spec2Model ----
(***************************************************************************)
(* The sync pipeline of uv: pip_sync (crates/uv/src/commands/pip/sync.rs)  *)
(* and the chunked installer of puffin-dev (install_many.rs), as a state   *)
(* machine.  One behaviour is one invocation: a single pip_sync run, two   *)
(* concurrent pip_sync runs on the same environment, or one install_chunk. *)
(***************************************************************************)
EXTENDS Integers, Sequences, FiniteSets, TLC

\* ------------------------------------------------------------------ bounds
MaxVer == 2
NumDemands == 3

\* The stream of fetches is buffered: buffer_unordered(50).
BufferSize == 50

Names == {"a", "b"}
Versions == 1..MaxVer
Dists == Names \X Versions
Runs == {"r1", "r2"}
NoRun == "none"

Demands == 1..NumDemands
Keys == {"k1", "k2"}
\* Map 0 is the in-flight map of the invocation.
MapIds == 0..NumDemands

ErrKinds == {"hash", "name", "other"}

NameOf(d) == d[1]
VerOf(d) == d[2]
NamesOf(S) == {NameOf(d) : d \in S}

\* ------------------------------------------------------------------ state
VARIABLES
    pc,          \* position of each pip_sync run
    input,       \* the arguments and sources of each run
    snapshot,    \* SitePackages::from_executable, as read by the run
    plan,        \* Plan { cached, remote, reinstalls, extraneous }
    fetched,     \* wheels returned by the downloader so far
    attempted,   \* dist_infos whose uninstall call has returned
    warned,      \* dist_infos whose uninstall reported a missing RECORD
    uninstErr,   \* dist_infos whose uninstall returned another error
    linked,      \* wheels linked into site-packages by the run
    log,         \* stages in which the run has acted, in order
    failedAt,    \* stage at which the run returned an error ("" if none)
    fetchErr,    \* kind of the download error ("none" if none)
    diagnosed,   \* the strict consistency diagnostics were printed
    site,        \* site-packages of the environment, on disk
    site0,       \* site-packages when the invocation began
    lockHolder,  \* the run holding the environment lock
    opRuns,      \* runs in the order of their uninstall/link file operations
    cpc,         \* position of install_chunk
    dkey,        \* resource identity of each fetch demand
    dstate,      \* state of each fetch demand
    inFlight,    \* the in-flight maps: key -> absent / pending / outcome
    fetchCalls,  \* per key, how often the fetch/build operation was started
    chunkCached, \* wheels install_chunk found in the registry wheel index
    chunkSite,   \* wheels install_chunk installed
    aggPc,       \* position of the from_sources call
    aggIn,       \* the requirement, constraint and override sources given
    aggOut,      \* what from_sources returned
    aggTwice,    \* what from_sources returned with every source given twice
    wsPc,        \* position of parse_direct_pyproject_toml
    packages,    \* the workspace: member name -> its lowered requirements
    queue,       \* members still to be traversed
    seen_editables, \* members already enqueued
    editables,   \* editable requirements emitted so far
    requirements,\* ordinary requirements emitted so far
    visits,      \* per member, how often its metadata was processed
    distPc,      \* position of the classification call
    distIn,      \* the requirement name, locator and editable flag
    distOut,     \* the distribution or error returned
    idPc,        \* position of the identity computation
    idIn,        \* the two distributions whose identities are computed
    idOut,       \* their distribution and resource identities
    idAgain,     \* the identities of the first one, computed once more
    discPc,      \* position of the discovery
    fs,          \* the manifest of every directory
    start,       \* the path discovery starts from
    discOut,     \* what ProjectWorkspace::discover returned
    discFrom,    \* the member a second discovery starts from
    discAgain,   \* what the second discovery returned
    repPc,       \* position of the change report
    repIn,       \* the plan and the wheels the report is made from
    repOut       \* the change events in the order they are printed

syncVars == <<pc, input, snapshot, plan, fetched, attempted, warned, uninstErr,
              linked, log, failedAt, fetchErr, diagnosed, site, site0,
              lockHolder, opRuns>>
chunkVars == <<cpc, dkey, dstate, inFlight, fetchCalls, chunkCached, chunkSite>>
aggVars == <<aggPc, aggIn, aggOut, aggTwice>>
wsVars == <<wsPc, packages, queue, seen_editables, editables, requirements, visits>>
distVars == <<distPc, distIn, distOut>>
idVars == <<idPc, idIn, idOut, idAgain>>
discVars == <<discPc, fs, start, discOut, discFrom, discAgain>>
repVars == <<repPc, repIn, repOut>>
pureVars == <<aggVars, wsVars, distVars, idVars, discVars, repVars>>
vars == <<syncVars, chunkVars, pureVars>>


\* ------------------------------------------------------------------ helpers
Inputs ==
    [desired : [Names -> 0..MaxVer], forced : {{}, {"a"}, Names},
     strict : BOOLEAN, compile : BOOLEAN, managed : BOOLEAN,
     breakSys : BOOLEAN, cacheHas : SUBSET Names]

\* Two concurrent runs are explored over a smaller family of arguments.
SmallInputs ==
    {i \in Inputs : /\ i.desired["b"] = 0 /\ i.desired["a"] > 0
                    /\ i.forced = {} /\ i.strict /\ i.compile
                    /\ i.breakSys /\ i.cacheHas \subseteq {"a"}}

NoInput ==
    [desired |-> [n \in Names |-> 0], forced |-> {}, strict |-> FALSE,
     compile |-> FALSE, managed |-> FALSE, breakSys |-> FALSE, cacheHas |-> {}]

EmptyPlan == [cached |-> {}, remote |-> {}, reinstalls |-> {}, extraneous |-> {}]

\* A site-packages directory with at most one install per package name.
CleanSites == {S \in SUBSET Dists : \A d, e \in S : NameOf(d) = NameOf(e) => d = e}

DesiredDists(req) == {d \in Dists : req[NameOf(d)] = VerOf(d)}

Logged(l, e) == IF l # <<>> /\ l[Len(l)] = e THEN l ELSE Append(l, e)

\* The statement order of pip_sync: each stage and the one that follows it.
StageAfterUninstallFirst(stage) ==
    CASE stage = "aggregate" -> "environment"
      [] stage = "environment" -> "lock"
      [] stage = "lock" -> "prepare"
      [] stage = "prepare" -> "plan"
      [] stage = "plan" -> "resolve"
      [] stage = "resolve" -> "uninstall"
      [] stage = "uninstall" -> "download"
      [] stage = "download" -> "install"
      [] stage = "install" -> "compile"
      [] stage = "compile" -> "report"
      [] OTHER -> "done"

StageAfter(stage) ==
    CASE stage = "aggregate" -> "environment"
      [] stage = "environment" -> "lock"
      [] stage = "lock" -> "prepare"
      [] stage = "prepare" -> "plan"
      [] stage = "plan" -> "resolve"
      [] stage = "resolve" -> "download"
      [] stage = "download" -> "uninstall"
      [] stage = "uninstall" -> "install"
      [] stage = "install" -> "compile"
      [] stage = "compile" -> "report"
      [] OTHER -> "done"

\* ------------------------------------------------------------------ planner
\* Planner::build, from its contract: a desired distribution installed at the
\* same version and not forced is skipped; otherwise the installed entries of
\* its name are reinstalls and it is cached or remote; installed entries whose
\* name is not desired are extraneous.
Needed(req, sp, reinstall) ==
    {d \in DesiredDists(req) : ~(d \in sp /\ NameOf(d) \notin reinstall)}

PlannerBuildKeepOld(req, sp, reinstall, cache) ==
    [cached |-> {d \in Needed(req, sp, reinstall) : NameOf(d) \in cache},
     remote |-> {d \in Needed(req, sp, reinstall) : NameOf(d) \notin cache},
     reinstalls |-> {},
     extraneous |-> {i \in sp : req[NameOf(i)] # VerOf(i)}]

PlannerBuild(req, sp, reinstall, cache) ==
    [cached |-> {d \in Needed(req, sp, reinstall) : NameOf(d) \in cache},
     remote |-> {d \in Needed(req, sp, reinstall) : NameOf(d) \notin cache},
     reinstalls |-> {i \in sp : NameOf(i) \in NamesOf(Needed(req, sp, reinstall))},
     extraneous |-> {i \in sp : req[NameOf(i)] = 0}]

\* ------------------------------------------------------------------ pip_sync
\* Returning from pip_sync drops `_lock`.
Release(r) == lockHolder' = IF lockHolder = r THEN NoRun ELSE lockHolder

Fail(r, stage) ==
    /\ pc' = [pc EXCEPT ![r] = "failed"]
    /\ failedAt' = [failedAt EXCEPT ![r] = stage]
    /\ Release(r)

Advance(r, stage) == pc' = [pc EXCEPT ![r] = StageAfter(stage)]

\* RequirementsSpecification::from_simple_sources fails.
AggregateFail(r) ==
    /\ pc[r] = "aggregate"
    /\ Fail(r, "aggregate")
    /\ UNCHANGED <<input, snapshot, plan, fetched, attempted, warned, uninstErr,
                   linked, log, fetchErr, diagnosed, site, site0, opRuns, chunkVars, pureVars>>

\* "No requirements found": success without touching the environment.
AggregateEmpty(r) ==
    /\ pc[r] = "aggregate"
    /\ DesiredDists(input[r].desired) = {}
    /\ pc' = [pc EXCEPT ![r] = "done"]
    /\ UNCHANGED <<input, snapshot, plan, fetched, attempted, warned, uninstErr,
                   linked, log, failedAt, fetchErr, diagnosed, site, site0,
                   lockHolder, opRuns, chunkVars, pureVars>>

AggregateOk(r) ==
    /\ pc[r] = "aggregate"
    /\ DesiredDists(input[r].desired) # {}
    /\ Advance(r, "aggregate")
    /\ UNCHANGED <<input, snapshot, plan, fetched, attempted, warned, uninstErr,
                   linked, log, failedAt, fetchErr, diagnosed, site, site0,
                   lockHolder, opRuns, chunkVars, pureVars>>

\* PythonEnvironment::find or Target::init fails.
EnvironmentFail(r) ==
    /\ pc[r] = "environment"
    /\ Fail(r, "environment")
    /\ UNCHANGED <<input, snapshot, plan, fetched, attempted, warned, uninstErr,
                   linked, log, fetchErr, diagnosed, site, site0, opRuns, chunkVars, pureVars>>

\* The environment is externally managed and --break-system-packages is not set.
ExternallyManagedRefusal(r) ==
    /\ pc[r] = "environment"
    /\ input[r].managed /\ ~input[r].breakSys
    /\ Fail(r, "externally_managed")
    /\ UNCHANGED <<input, snapshot, plan, fetched, attempted, warned, uninstErr,
                   linked, log, fetchErr, diagnosed, site, site0, opRuns, chunkVars, pureVars>>

\* The externally-managed marker is not looked at.
EnvironmentOkUnchecked(r) ==
    /\ pc[r] = "environment"
    /\ Advance(r, "environment")
    /\ UNCHANGED <<input, snapshot, plan, fetched, attempted, warned, uninstErr,
                   linked, log, failedAt, fetchErr, diagnosed, site, site0,
                   lockHolder, opRuns, chunkVars, pureVars>>

EnvironmentOk(r) ==
    /\ pc[r] = "environment"
    /\ ~input[r].managed \/ input[r].breakSys
    /\ Advance(r, "environment")
    /\ UNCHANGED <<input, snapshot, plan, fetched, attempted, warned, uninstErr,
                   linked, log, failedAt, fetchErr, diagnosed, site, site0,
                   lockHolder, opRuns, chunkVars, pureVars>>

\* `let _ = venv.lock()?`: the guard is dropped at once.
AcquireLockDropped(r) ==
    /\ pc[r] = "lock"
    /\ lockHolder = NoRun
    /\ Advance(r, "lock")
    /\ UNCHANGED <<input, snapshot, plan, fetched, attempted, warned, uninstErr,
                   linked, log, failedAt, fetchErr, diagnosed, site, site0,
                   lockHolder, opRuns, chunkVars, pureVars>>

\* `let _lock = venv.lock()?`: blocks until the file lock is free.
AcquireLock(r) ==
    /\ pc[r] = "lock"
    /\ lockHolder = NoRun
    /\ lockHolder' = r
    /\ Advance(r, "lock")
    /\ UNCHANGED <<input, snapshot, plan, fetched, attempted, warned, uninstErr,
                   linked, log, failedAt, fetchErr, diagnosed, site, site0,
                   opRuns, chunkVars, pureVars>>

\* venv.lock() returns an I/O error.
LockFail(r) ==
    /\ pc[r] = "lock"
    /\ Fail(r, "lock")
    /\ UNCHANGED <<input, snapshot, plan, fetched, attempted, warned, uninstErr,
                   linked, log, fetchErr, diagnosed, site, site0, opRuns, chunkVars, pureVars>>

\* Tags, hashes, flat index, SitePackages::from_executable, named requirements
\* and editables are resolved.
PrepareOk(r) ==
    /\ pc[r] = "prepare"
    /\ snapshot' = [snapshot EXCEPT ![r] = site]
    /\ Advance(r, "prepare")
    /\ UNCHANGED <<input, plan, fetched, attempted, warned, uninstErr,
                   linked, log, failedAt, fetchErr, diagnosed, site, site0,
                   lockHolder, opRuns, chunkVars, pureVars>>

PrepareFail(r) ==
    /\ pc[r] = "prepare"
    /\ Fail(r, "prepare")
    /\ UNCHANGED <<input, snapshot, plan, fetched, attempted, warned, uninstErr,
                   linked, log, fetchErr, diagnosed, site, site0, opRuns, chunkVars, pureVars>>

PlanOf(r) ==
    PlannerBuild(input[r].desired, snapshot[r], input[r].forced, input[r].cacheHas)

PlanOk(r) ==
    /\ pc[r] = "plan"
    /\ PlanOf(r) # EmptyPlan
    /\ plan' = [plan EXCEPT ![r] = PlanOf(r)]
    /\ Advance(r, "plan")
    /\ UNCHANGED <<input, snapshot, fetched, attempted, warned, uninstErr,
                   linked, log, failedAt, fetchErr, diagnosed, site, site0,
                   lockHolder, opRuns, chunkVars, pureVars>>

\* "Audited n packages": all four classes are empty.
PlanNothingToDo(r) ==
    /\ pc[r] = "plan"
    /\ PlanOf(r) = EmptyPlan
    /\ plan' = [plan EXCEPT ![r] = PlanOf(r)]
    /\ pc' = [pc EXCEPT ![r] = "done"]
    /\ Release(r)
    /\ UNCHANGED <<input, snapshot, fetched, attempted, warned, uninstErr,
                   linked, log, failedAt, fetchErr, diagnosed, site, site0,
                   opRuns, chunkVars, pureVars>>

\* "Failed to determine installation plan".
PlanFail(r) ==
    /\ pc[r] = "plan"
    /\ Fail(r, "plan")
    /\ UNCHANGED <<input, snapshot, plan, fetched, attempted, warned, uninstErr,
                   linked, log, fetchErr, diagnosed, site, site0, opRuns, chunkVars, pureVars>>

\* The resolver pins the remote requirements (skipped when remote is empty).
ResolveOk(r) ==
    /\ pc[r] = "resolve"
    /\ Advance(r, "resolve")
    /\ UNCHANGED <<input, snapshot, plan, fetched, attempted, warned, uninstErr,
                   linked, log, failedAt, fetchErr, diagnosed, site, site0,
                   lockHolder, opRuns, chunkVars, pureVars>>

ResolveNoSolution(r) ==
    /\ pc[r] = "resolve"
    /\ plan[r].remote # {}
    /\ Fail(r, "no_solution")
    /\ UNCHANGED <<input, snapshot, plan, fetched, attempted, warned, uninstErr,
                   linked, log, fetchErr, diagnosed, site, site0, opRuns, chunkVars, pureVars>>

ResolveFail(r) ==
    /\ pc[r] = "resolve"
    /\ plan[r].remote # {}
    /\ Fail(r, "resolve")
    /\ UNCHANGED <<input, snapshot, plan, fetched, attempted, warned, uninstErr,
                   linked, log, fetchErr, diagnosed, site, site0, opRuns, chunkVars, pureVars>>

\* Downloader::download(remote, &in_flight): one unit is fetched or built.
FetchOk(r) ==
    /\ pc[r] = "download"
    /\ \E d \in plan[r].remote \ fetched[r] :
          fetched' = [fetched EXCEPT ![r] = @ \cup {d}]
    /\ log' = [log EXCEPT ![r] = Logged(@, "fetch")]
    /\ UNCHANGED <<pc, input, snapshot, plan, attempted, warned, uninstErr,
                   linked, failedAt, fetchErr, diagnosed, site, site0,
                   lockHolder, opRuns, chunkVars, pureVars>>

\* A unit fails: "Failed to download distributions" is returned with `?`,
\* whatever the kind of the error.
FetchFail(r) ==
    /\ pc[r] = "download"
    /\ plan[r].remote \ fetched[r] # {}
    /\ \E k \in ErrKinds : fetchErr' = [fetchErr EXCEPT ![r] = k]
    /\ log' = [log EXCEPT ![r] = Logged(@, "fetch")]
    /\ Fail(r, "download")
    /\ UNCHANGED <<input, snapshot, plan, fetched, attempted, warned, uninstErr,
                   linked, diagnosed, site, site0, opRuns, chunkVars, pureVars>>

DownloadDone(r) ==
    /\ pc[r] = "download"
    /\ plan[r].remote \subseteq fetched[r]
    /\ Advance(r, "download")
    /\ UNCHANGED <<input, snapshot, plan, fetched, attempted, warned, uninstErr,
                   linked, log, failedAt, fetchErr, diagnosed, site, site0,
                   lockHolder, opRuns, chunkVars, pureVars>>

\* The extraneous installs are removed only under `strict`.
UninstallTargetsStrictOnly(r) ==
    IF input[r].strict
    THEN plan[r].extraneous \cup plan[r].reinstalls
    ELSE plan[r].reinstalls

\* extraneous.iter().chain(reinstalls.iter())
UninstallTargets(r) == plan[r].extraneous \cup plan[r].reinstalls

\* The loop ends after the extraneous installs.
UninstallPendingExtraneousOnly(r) == plan[r].extraneous \ attempted[r]

\* What the loop has still to visit.
UninstallPending(r) == UninstallTargets(r) \ attempted[r]

\* The loop visits the extraneous installs first, then the reinstalls.
NextUninstall(r) ==
    IF plan[r].extraneous \cap UninstallPending(r) # {}
    THEN plan[r].extraneous \cap UninstallPending(r)
    ELSE UninstallPending(r)

UninstallOk(r) ==
    /\ pc[r] = "uninstall"
    /\ \E d \in NextUninstall(r) :
          /\ site' = site \ {d}
          /\ attempted' = [attempted EXCEPT ![r] = @ \cup {d}]
    /\ log' = [log EXCEPT ![r] = Logged(@, "uninstall")]
    /\ opRuns' = Logged(opRuns, r)
    /\ UNCHANGED <<pc, input, snapshot, plan, fetched, warned, uninstErr,
                   linked, failedAt, fetchErr, diagnosed, site0,
                   lockHolder, chunkVars, pureVars>>

\* Error::MissingRecord: a warning, and the loop goes on; the install stays.
UninstallMissingRecord(r) ==
    /\ pc[r] = "uninstall"
    /\ \E d \in NextUninstall(r) :
          /\ attempted' = [attempted EXCEPT ![r] = @ \cup {d}]
          /\ warned' = [warned EXCEPT ![r] = @ \cup {d}]
    /\ log' = [log EXCEPT ![r] = Logged(@, "uninstall")]
    /\ opRuns' = Logged(opRuns, r)
    /\ UNCHANGED <<pc, input, snapshot, plan, fetched, uninstErr,
                   linked, failedAt, fetchErr, diagnosed, site, site0,
                   lockHolder, chunkVars, pureVars>>

\* The error is swallowed and the loop goes on.
UninstallErrContinue(r) ==
    /\ pc[r] = "uninstall"
    /\ \E d \in NextUninstall(r) :
          /\ attempted' = [attempted EXCEPT ![r] = @ \cup {d}]
          /\ uninstErr' = [uninstErr EXCEPT ![r] = @ \cup {d}]
          /\ site' \in {site, site \ {d}}
    /\ log' = [log EXCEPT ![r] = Logged(@, "uninstall")]
    /\ opRuns' = Logged(opRuns, r)
    /\ UNCHANGED <<pc, input, snapshot, plan, fetched, warned,
                   linked, failedAt, fetchErr, diagnosed, site0,
                   lockHolder, chunkVars, pureVars>>

\* Any other error: `return Err(err.into())`; the files may be partly removed.
UninstallErr(r) ==
    /\ pc[r] = "uninstall"
    /\ \E d \in NextUninstall(r) :
          /\ attempted' = [attempted EXCEPT ![r] = @ \cup {d}]
          /\ uninstErr' = [uninstErr EXCEPT ![r] = @ \cup {d}]
          /\ site' \in {site, site \ {d}}
    /\ log' = [log EXCEPT ![r] = Logged(@, "uninstall")]
    /\ opRuns' = Logged(opRuns, r)
    /\ Fail(r, "uninstall")
    /\ UNCHANGED <<input, snapshot, plan, fetched, warned,
                   linked, fetchErr, diagnosed, site0, chunkVars, pureVars>>

UninstallDone(r) ==
    /\ pc[r] = "uninstall"
    /\ UninstallPending(r) = {}
    /\ Advance(r, "uninstall")
    /\ UNCHANGED <<input, snapshot, plan, fetched, attempted, warned, uninstErr,
                   linked, log, failedAt, fetchErr, diagnosed, site, site0,
                   lockHolder, opRuns, chunkVars, pureVars>>

\* let wheels = wheels.into_iter().chain(cached)
Wheels(r) == fetched[r] \cup plan[r].cached

\* Installer::install(&wheels) links one wheel into site-packages.
LinkOne(r) ==
    /\ pc[r] = "install"
    /\ \E w \in Wheels(r) \ linked[r] :
          /\ site' = site \cup {w}
          /\ linked' = [linked EXCEPT ![r] = @ \cup {w}]
    /\ log' = [log EXCEPT ![r] = Logged(@, "link")]
    /\ opRuns' = Logged(opRuns, r)
    /\ UNCHANGED <<pc, input, snapshot, plan, fetched, attempted, warned,
                   uninstErr, failedAt, fetchErr, diagnosed, site0,
                   lockHolder, chunkVars, pureVars>>

InstallFail(r) ==
    /\ pc[r] = "install"
    /\ Wheels(r) \ linked[r] # {}
    /\ Fail(r, "install")
    /\ UNCHANGED <<input, snapshot, plan, fetched, attempted, warned, uninstErr,
                   linked, log, fetchErr, diagnosed, site, site0, opRuns, chunkVars, pureVars>>

InstallDone(r) ==
    /\ pc[r] = "install"
    /\ Wheels(r) \subseteq linked[r]
    /\ Advance(r, "install")
    /\ UNCHANGED <<input, snapshot, plan, fetched, attempted, warned, uninstErr,
                   linked, log, failedAt, fetchErr, diagnosed, site, site0,
                   lockHolder, opRuns, chunkVars, pureVars>>

CompileOk(r) ==
    /\ pc[r] = "compile"
    /\ input[r].compile
    /\ log' = [log EXCEPT ![r] = Logged(@, "compile")]
    /\ Advance(r, "compile")
    /\ UNCHANGED <<input, snapshot, plan, fetched, attempted, warned, uninstErr,
                   linked, failedAt, fetchErr, diagnosed, site, site0,
                   lockHolder, opRuns, chunkVars, pureVars>>

CompileFail(r) ==
    /\ pc[r] = "compile"
    /\ input[r].compile
    /\ log' = [log EXCEPT ![r] = Logged(@, "compile")]
    /\ Fail(r, "compile")
    /\ UNCHANGED <<input, snapshot, plan, fetched, attempted, warned, uninstErr,
                   linked, fetchErr, diagnosed, site, site0, opRuns, chunkVars, pureVars>>

CompileSkip(r) ==
    /\ pc[r] = "compile"
    /\ ~input[r].compile
    /\ Advance(r, "compile")
    /\ UNCHANGED <<input, snapshot, plan, fetched, attempted, warned, uninstErr,
                   linked, log, failedAt, fetchErr, diagnosed, site, site0,
                   lockHolder, opRuns, chunkVars, pureVars>>

\* The change events are printed; with `strict` the environment is re-read and
\* its diagnostics are printed; then Ok(ExitStatus::Success).
Report(r) ==
    /\ pc[r] = "report"
    /\ diagnosed' = [diagnosed EXCEPT ![r] = input[r].strict]
    /\ pc' = [pc EXCEPT ![r] = "done"]
    /\ Release(r)
    /\ UNCHANGED <<input, snapshot, plan, fetched, attempted, warned, uninstErr,
                   linked, log, failedAt, fetchErr, site, site0, opRuns, chunkVars, pureVars>>

NextSync ==
    \E r \in Runs :
        \/ AggregateFail(r) \/ AggregateEmpty(r) \/ AggregateOk(r)
        \/ EnvironmentFail(r) \/ ExternallyManagedRefusal(r) \/ EnvironmentOk(r)
        \/ AcquireLock(r) \/ LockFail(r)
        \/ PrepareOk(r) \/ PrepareFail(r)
        \/ PlanOk(r) \/ PlanNothingToDo(r) \/ PlanFail(r)
        \/ ResolveOk(r) \/ ResolveNoSolution(r) \/ ResolveFail(r)
        \/ FetchOk(r) \/ FetchFail(r) \/ DownloadDone(r)
        \/ UninstallOk(r) \/ UninstallMissingRecord(r) \/ UninstallErr(r)
        \/ UninstallDone(r)
        \/ LinkOne(r) \/ InstallFail(r) \/ InstallDone(r)
        \/ CompileOk(r) \/ CompileFail(r) \/ CompileSkip(r)
        \/ Report(r)

\* ------------------------------------------------------------------ install_chunk
CachedIds == {"c1", "c2"}

\* Every get_wheel call is handed a map of its own.
MapOfPerDemand(t) == t

\* Every get_wheel call of the stream is handed the same `&in_flight`.
MapOf(t) == 0

Active == {t \in Demands : dstate[t] \in {"running", "waiting"}}

\* Downloader::get_wheel(dist, &in_flight): the first caller for a key registers
\* it and starts the fetch/build; a later caller waits for that entry.
GetWheel(t) ==
    /\ cpc = "fetch"
    /\ dstate[t] = "queued"
    /\ Cardinality(Active) < BufferSize
    /\ IF inFlight[MapOf(t)][dkey[t]] = "absent"
       THEN /\ inFlight' = [inFlight EXCEPT ![MapOf(t)][dkey[t]] = "pending"]
            /\ fetchCalls' = [fetchCalls EXCEPT ![dkey[t]] = @ + 1]
            /\ dstate' = [dstate EXCEPT ![t] = "running"]
       ELSE /\ dstate' = [dstate EXCEPT ![t] = "waiting"]
            /\ UNCHANGED <<inFlight, fetchCalls>>
    /\ UNCHANGED <<cpc, dkey, chunkCached, chunkSite, syncVars, pureVars>>

\* The fetch/build of the registering caller ends; its outcome is published.
FetchComplete(t) ==
    /\ cpc = "fetch"
    /\ dstate[t] = "running"
    /\ \E o \in {"ok", "err"} :
          /\ inFlight' = [inFlight EXCEPT ![MapOf(t)][dkey[t]] = o]
          /\ dstate' = [dstate EXCEPT ![t] = o]
    /\ UNCHANGED <<cpc, dkey, fetchCalls, chunkCached, chunkSite, syncVars, pureVars>>

\* A waiting caller observes the published outcome.
AwaitInFlight(t) ==
    /\ cpc = "fetch"
    /\ dstate[t] = "waiting"
    /\ inFlight[MapOf(t)][dkey[t]] \in {"ok", "err"}
    /\ dstate' = [dstate EXCEPT ![t] = inFlight[MapOf(t)][dkey[t]]]
    /\ UNCHANGED <<cpc, dkey, inFlight, fetchCalls, chunkCached, chunkSite, syncVars, pureVars>>

\* .collect().await, then partition_result: failures are only logged.
CollectFetches ==
    /\ cpc = "fetch"
    /\ \A t \in Demands : dstate[t] \in {"ok", "err"}
    /\ cpc' = "install"
    /\ UNCHANGED <<dkey, dstate, inFlight, fetchCalls, chunkCached, chunkSite, syncVars, pureVars>>

FetchedWheels == {dkey[t] : t \in {u \in Demands : dstate[u] = "ok"}}

\* The wheels are installed only when no fetch failed.
ChunkInstallUnlessFailures ==
    /\ cpc = "install"
    /\ chunkSite' = IF \E t \in Demands : dstate[t] = "err"
                    THEN {}
                    ELSE FetchedWheels \cup chunkCached
    /\ cpc' = "done"
    /\ UNCHANGED <<dkey, dstate, inFlight, fetchCalls, chunkCached, syncVars, pureVars>>

\* wheels.into_iter().chain(cached) is installed.
ChunkInstall ==
    /\ cpc = "install"
    /\ chunkSite' = FetchedWheels \cup chunkCached
    /\ cpc' = "done"
    /\ UNCHANGED <<dkey, dstate, inFlight, fetchCalls, chunkCached, syncVars, pureVars>>

\* "Failed to install".
ChunkInstallFail ==
    /\ cpc = "install"
    /\ cpc' = "failed"
    /\ UNCHANGED <<dkey, dstate, inFlight, fetchCalls, chunkCached, chunkSite, syncVars, pureVars>>

NextChunk ==
    \/ \E t \in Demands : GetWheel(t) \/ FetchComplete(t) \/ AwaitInFlight(t)
    \/ CollectFetches
    \/ ChunkInstall
    \/ ChunkInstallFail

\* ------------------------------------------------------------------ from_sources
\* At most this many sources are given to one from_sources call.
MaxSources == 2

NoUrl == "none"
NoProject == "none"
Urls == {"x", "x/", "y"}

\* Two URLs are the same index when they differ only by a trailing slash.
CanonicalUrl(u) == IF u = "x/" THEN "x" ELSE u

Named(n) == [name |-> n, named |-> TRUE]
Unnamed(n) == [name |-> n, named |-> FALSE]

\* A source as handed to from_source, with what reading it finds: for a
\* requirements file its entries, nested constraints, editables and index
\* options; for a project manifest the project found (NoProject when the
\* manifest has no [project] table) with its lowered requirements.
Source(kind, item, reqs, cons, eds, project, index, noIndex, extra) ==
    [kind |-> kind, item |-> item, reqs |-> reqs, cons |-> cons, eds |-> eds,
     project |-> project, index |-> index, noIndex |-> noIndex, extra |-> extra]

Bare(kind, item) ==
    Source(kind, item, <<>>, <<>>, <<>>, NoProject, NoUrl, FALSE, <<>>)

Txt(reqs, cons, eds, index, noIndex, extra) ==
    Source("RequirementsTxt", "f", reqs, cons, eds, NoProject, index, noIndex, extra)

Sources ==
    { Bare("Package", "a"),
      Bare("SourceTree", "t"),
      Bare("Editable", "e"),
      Bare("SetupPy", "s"),
      Bare("PyprojectToml", "m"),
      Source("PyprojectToml", "p", <<Named("b")>>, <<>>, <<"w">>, "p", NoUrl, FALSE, <<>>),
      Source("PyprojectToml", "q", <<>>, <<>>, <<>>, "q", NoUrl, FALSE, <<>>),
      Txt(<<Named("a")>>, <<>>, <<>>, "x", FALSE, <<>>),
      Txt(<<Named("b")>>, <<Named("c")>>, <<"v">>, "x/", FALSE, <<"z">>),
      Txt(<<Unnamed("u")>>, <<>>, <<>>, "y", FALSE, <<>>),
      Txt(<<Named("a"), Unnamed("u")>>, <<Named("c")>>, <<"e">>, NoUrl, TRUE, <<>>),
      Txt(<<Named("c")>>, <<>>, <<>>, "y", FALSE, <<>>) }

EmptySpec ==
    [project |-> NoProject, requirements |-> <<>>, constraints |-> <<>>,
     overrides |-> <<>>, editables |-> <<>>, source_trees |-> <<>>,
     index_url |-> NoUrl, no_index |-> FALSE, extra_index_urls |-> <<>>]

\* RequirementsSpecification::from_source.
FromSource(source) ==
    CASE source.kind = "Package" ->
            [EmptySpec EXCEPT !.requirements = <<Named(source.item)>>]
      [] source.kind = "Editable" ->
            [EmptySpec EXCEPT !.editables = <<source.item>>]
      [] source.kind = "RequirementsTxt" ->
            [EmptySpec EXCEPT !.requirements = source.reqs,
                              !.constraints = source.cons,
                              !.editables = source.eds,
                              !.index_url = source.index,
                              !.no_index = source.noIndex,
                              !.extra_index_urls = source.extra]
      [] source.kind = "PyprojectToml" ->
            IF source.project = NoProject
            THEN [EmptySpec EXCEPT !.source_trees = <<source.item>>]
            ELSE [EmptySpec EXCEPT !.project = source.project,
                                   !.requirements = source.reqs,
                                   !.editables = source.eds]
      [] source.kind \in {"SetupPy", "SetupCfg"} ->
            [EmptySpec EXCEPT !.source_trees = <<source.item>>]
      [] source.kind = "SourceTree" ->
            [EmptySpec EXCEPT !.requirements = <<Unnamed(source.item)>>]

NoError == ""
MultipleIndexUrls == "Multiple index URLs specified"
UnnamedConstraint == "Unnamed requirements are not allowed as constraints"

\* The URLs are compared as written.
IndexConflictVerbatim(existing, declared) ==
    /\ declared # NoUrl
    /\ existing # NoUrl
    /\ existing # declared

\* `if CanonicalUrl::new(index_url.url()) != CanonicalUrl::new(existing.url())`
IndexConflict(existing, declared) ==
    /\ declared # NoUrl
    /\ existing # NoUrl
    /\ CanonicalUrl(existing) # CanonicalUrl(declared)

\* A URL already set is kept.
MergeIndexFirstWins(existing, declared) ==
    IF existing # NoUrl THEN existing ELSE declared

\* `spec.index_url = Some(index_url)` for every source that declares one.
MergeIndex(existing, declared) ==
    IF declared # NoUrl THEN declared ELSE existing

\* The index options every kind of source contributes.
MergeOptions(spec, src) ==
    [spec EXCEPT !.index_url = MergeIndex(@, src.index_url),
                 !.no_index = @ \/ src.no_index,
                 !.extra_index_urls = @ \o src.extra_index_urls]

HasUnnamed(reqs) == \E i \in DOMAIN reqs : ~reqs[i].named

Failed(e) == [err |-> e, spec |-> EmptySpec]

\* The nested constraints of a requirement source are left out.
StepRequirementNoNested(spec, src) ==
    LET merged == [spec EXCEPT !.requirements = @ \o src.requirements,
                               !.overrides = @ \o src.overrides,
                               !.editables = @ \o src.editables,
                               !.source_trees = @ \o src.source_trees,
                               !.project = IF @ = NoProject THEN src.project ELSE @]
    IN  IF IndexConflict(spec.index_url, src.index_url)
        THEN Failed(MultipleIndexUrls)
        ELSE [err |-> NoError, spec |-> MergeOptions(merged, src)]

\* One iteration of the loop over the requirement sources.
StepRequirement(spec, src) ==
    LET merged == [spec EXCEPT !.requirements = @ \o src.requirements,
                               !.constraints = @ \o src.constraints,
                               !.overrides = @ \o src.overrides,
                               !.editables = @ \o src.editables,
                               !.source_trees = @ \o src.source_trees,
                               !.project = IF @ = NoProject THEN src.project ELSE @]
    IN  IF IndexConflict(spec.index_url, src.index_url)
        THEN Failed(MultipleIndexUrls)
        ELSE [err |-> NoError, spec |-> MergeOptions(merged, src)]

\* The entries of a constraint source that are dropped without an error.
StepConstraintSkipUnnamed(spec, src) ==
    LET named == SelectSeq(src.requirements, LAMBDA e : e.named)
        merged == [spec EXCEPT !.constraints = @ \o named \o src.constraints]
    IN  IF IndexConflict(spec.index_url, src.index_url)
        THEN Failed(MultipleIndexUrls)
        ELSE [err |-> NoError, spec |-> MergeOptions(merged, src)]

\* One iteration of the loop over the constraint sources.
StepConstraint(spec, src) ==
    LET merged == [spec EXCEPT !.constraints = @ \o src.requirements \o src.constraints]
    IN  IF HasUnnamed(src.requirements)
        THEN Failed(UnnamedConstraint)
        ELSE IF IndexConflict(spec.index_url, src.index_url)
        THEN Failed(MultipleIndexUrls)
        ELSE [err |-> NoError, spec |-> MergeOptions(merged, src)]

\* Entries already among the overrides are not added again.
StepOverrideOnce(spec, src) ==
    LET seen(e) == \E i \in DOMAIN spec.overrides : spec.overrides[i] = e
        fresh == SelectSeq(src.requirements \o src.overrides, LAMBDA e : ~seen(e))
        merged == [spec EXCEPT !.overrides = @ \o fresh]
    IN  IF IndexConflict(spec.index_url, src.index_url)
        THEN Failed(MultipleIndexUrls)
        ELSE [err |-> NoError, spec |-> MergeOptions(merged, src)]

\* One iteration of the loop over the override sources.
StepOverride(spec, src) ==
    LET merged == [spec EXCEPT !.overrides = @ \o src.requirements \o src.overrides]
    IN  IF IndexConflict(spec.index_url, src.index_url)
        THEN Failed(MultipleIndexUrls)
        ELSE [err |-> NoError, spec |-> MergeOptions(merged, src)]

Step(kind, spec, src) ==
    CASE kind = "requirement" -> StepRequirement(spec, src)
      [] kind = "constraint" -> StepConstraint(spec, src)
      [] kind = "override" -> StepOverride(spec, src)

\* A loop of from_sources; the first error returns from the function.
RECURSIVE Merge(_, _, _)
Merge(kind, acc, sources) ==
    IF acc.err # NoError \/ sources = <<>>
    THEN acc
    ELSE Merge(kind, Step(kind, acc.spec, FromSource(Head(sources))), Tail(sources))

\* RequirementsSpecification::from_sources.
FromSources(reqs, cons, ovs) ==
    Merge("override",
          Merge("constraint",
                Merge("requirement", [err |-> NoError, spec |-> EmptySpec], reqs),
                cons),
          ovs)

SeqsUpTo(S, n) == UNION {[1..k -> S] : k \in 0..n}

\* Every way to give at most MaxSources sources as requirement, constraint
\* and override sources.
AggInputs ==
    {[reqs |-> SubSeq(all, 1, i), cons |-> SubSeq(all, i + 1, j),
      ovs |-> SubSeq(all, j + 1, Len(all))] :
        <<all, i, j>> \in {<<a, i, j>> \in SeqsUpTo(Sources, MaxSources)
                                           \X (0..MaxSources) \X (0..MaxSources) :
                               i <= j /\ j <= Len(a)}}

NoAggInput == [reqs |-> <<>>, cons |-> <<>>, ovs |-> <<>>]
NotReturned == [err |-> "not returned", spec |-> EmptySpec]

\* Every source given twice, one copy after the other.
Twice(sources) ==
    [i \in 1..(2 * Len(sources)) |-> sources[(i + 1) \div 2]]

\* from_sources on the sources given.
Aggregate ==
    /\ aggPc = "ready"
    /\ aggOut' = FromSources(aggIn.reqs, aggIn.cons, aggIn.ovs)
    /\ aggPc' = "once"
    /\ UNCHANGED <<aggIn, aggTwice, syncVars, chunkVars, wsVars, distVars, idVars, discVars, repVars>>

\* from_sources again, with every source given twice: either each source
\* followed by its copy, or the whole list followed by its copy.
AggregateTwice ==
    /\ aggPc = "once"
    /\ \/ aggTwice' = FromSources(Twice(aggIn.reqs), Twice(aggIn.cons), Twice(aggIn.ovs))
       \/ aggTwice' = FromSources(aggIn.reqs \o aggIn.reqs, aggIn.cons \o aggIn.cons,
                                  aggIn.ovs \o aggIn.ovs)
    /\ aggPc' = "twice"
    /\ UNCHANGED <<aggIn, aggOut, syncVars, chunkVars, wsVars, distVars, idVars, discVars, repVars>>

NextAgg == Aggregate \/ AggregateTwice

\* ------------------------------------------------------------------ parse_direct_pyproject_toml
\* At most this many requirements in the manifest of one workspace member.
MaxDeps == 2

\* The project whose manifest is aggregated, and the packages its workspace
\* may hold.
ProjectName == "A"
Members == {"A", "B", "C"}

\* A lowered requirement: an editable path requirement or any other one.
EditablePath(n) == [name |-> n, editable |-> TRUE]
Registry(n) == [name |-> n, editable |-> FALSE]
Lowered == {EditablePath(m) : m \in Members} \cup {Registry("x")}

\* The requirements of one manifest: distinct, at most MaxDeps of them.
DepLists ==
    {l \in SeqsUpTo(Lowered, MaxDeps) : \A i, j \in DOMAIN l : l[i] = l[j] => i = j}

\* The workspace always holds the project; C may be a path outside of it.
Workspaces ==
    UNION {[ms -> DepLists] : ms \in {{"A", "B"}, Members}}

\* The inner loop without the queue: no member is discovered through another.
RECURSIVE PartitionNoEnqueue(_, _)
PartitionNoEnqueue(acc, reqs) ==
    IF reqs = <<>> THEN acc
    ELSE LET r == Head(reqs)
         IN  IF r.editable
             THEN PartitionNoEnqueue(
                      [acc EXCEPT !.editables = Append(@, r.name),
                                  !.seen = @ \cup {r.name}],
                      Tail(reqs))
             ELSE PartitionNoEnqueue([acc EXCEPT !.requirements = Append(@, r.name)],
                                     Tail(reqs))

\* The inner loop without the visited set: every editable path requirement
\* is enqueued.
RECURSIVE PartitionAlwaysEnqueue(_, _)
PartitionAlwaysEnqueue(acc, reqs) ==
    IF reqs = <<>> THEN acc
    ELSE LET r == Head(reqs)
         IN  IF r.editable
             THEN PartitionAlwaysEnqueue(
                      [acc EXCEPT !.editables = Append(@, r.name),
                                  !.seen = @ \cup {r.name},
                                  !.queue = Append(@, r.name)],
                      Tail(reqs))
             ELSE PartitionAlwaysEnqueue(
                      [acc EXCEPT !.requirements = Append(@, r.name)], Tail(reqs))

\* `for requirement in project.requirements`: an editable path requirement
\* is pushed to the editables and, when its name is new, enqueued; any other
\* requirement is pushed to the requirements.
RECURSIVE Partition(_, _)
Partition(acc, reqs) ==
    IF reqs = <<>> THEN acc
    ELSE LET r == Head(reqs)
         IN  IF r.editable
             THEN Partition(
                      [acc EXCEPT !.editables = Append(@, r.name),
                                  !.seen = @ \cup {r.name},
                                  !.queue = IF r.name \in acc.seen
                                            THEN @ ELSE Append(@, r.name)],
                      Tail(reqs))
             ELSE Partition([acc EXCEPT !.requirements = Append(@, r.name)],
                            Tail(reqs))

\* seen_editables and queue start with the project's name.
ParseStart ==
    /\ wsPc = "ready"
    /\ seen_editables' = {ProjectName}
    /\ queue' = <<ProjectName>>
    /\ wsPc' = "loop"
    /\ UNCHANGED <<packages, editables, requirements, visits,
                   syncVars, chunkVars, aggVars, distVars, idVars, discVars, repVars>>

\* One iteration of `while let Some(project_name) = queue.pop_front()` for a
\* name the workspace holds.
ParseVisit ==
    /\ wsPc = "loop"
    /\ queue # <<>>
    /\ Head(queue) \in DOMAIN packages
    /\ LET acc == Partition([editables |-> editables, requirements |-> requirements,
                             seen |-> seen_editables, queue |-> Tail(queue)],
                            packages[Head(queue)])
       IN  /\ editables' = acc.editables
           /\ requirements' = acc.requirements
           /\ seen_editables' = acc.seen
           /\ queue' = acc.queue
    /\ visits' = [visits EXCEPT ![Head(queue)] = @ + 1]
    /\ UNCHANGED <<wsPc, packages, syncVars, chunkVars, aggVars, distVars, idVars, discVars, repVars>>

\* One iteration for a name the workspace does not hold: `continue`.
ParseSkip ==
    /\ wsPc = "loop"
    /\ queue # <<>>
    /\ Head(queue) \notin DOMAIN packages
    /\ queue' = Tail(queue)
    /\ UNCHANGED <<wsPc, packages, seen_editables, editables, requirements, visits,
                   syncVars, chunkVars, aggVars, distVars, idVars, discVars, repVars>>

\* The queue is empty: the specification is returned.
ParseReturn ==
    /\ wsPc = "loop"
    /\ queue = <<>>
    /\ wsPc' = "done"
    /\ UNCHANGED <<packages, queue, seen_editables, editables, requirements, visits,
                   syncVars, chunkVars, aggVars, distVars, idVars, discVars, repVars>>

NextWs == ParseStart \/ ParseVisit \/ ParseSkip \/ ParseReturn

\* ------------------------------------------------------------------ Dist::from_url
\* The extension of the locator's path ("" when it has none).
Exts == {"whl", "WHL", "Whl", "zip", ""}

\* ASCII lower case of an extension.
Lower(ext) == IF ext \in {"WHL", "Whl"} THEN "whl" ELSE ext

\* What WheelFilename::from_str makes of the locator's file name: the package
\* name it holds, or NoParse when it is not a wheel file name.
NoParse == "none"
Parsed == Names \cup {NoParse}

\* What the path of the locator is on disk; "denied" is a path whose
\* canonicalization fails with an error other than NotFound.
FsKinds == {"missing", "dir", "file", "denied"}

ParsedUrlKinds == {"Archive", "Path", "Git"}
DistOps == {"from_url", "from_http_url", "from_file_url", "from_git_url", "from_editable"}

Locators == [ext : Exts, parsed : Parsed, fs : FsKinds]

DistInputs ==
    [op : DistOps, name : Names, kind : ParsedUrlKinds, loc : Locators,
     editable : BOOLEAN]

Classified(tag, name, editable) ==
    [ok |-> TRUE, tag |-> tag, name |-> name, editable |-> editable]
DistError(tag) ==
    [ok |-> FALSE, tag |-> tag, name |-> "", editable |-> FALSE]

\* The extension is compared as written.
IsWheelExact(ext) == ext = "whl"

\* `.extension().is_some_and(|ext| ext.eq_ignore_ascii_case("whl"))`
IsWheel(ext) == Lower(ext) = "whl"

\* Dist::from_http_url.
FromHttpUrl(name, loc) ==
    IF IsWheel(loc.ext)
    THEN IF loc.parsed = NoParse THEN DistError("WheelFilename")
         ELSE IF loc.parsed # name THEN DistError("PackageNameMismatch")
         ELSE Classified("DirectUrlBuilt", loc.parsed, FALSE)
    ELSE Classified("DirectUrlSource", name, FALSE)

\* A directory is never marked editable.
FromFileUrlNotEditable(name, loc, editable) ==
    IF loc.fs = "missing" THEN DistError("NotFound")
    ELSE IF loc.fs = "denied" THEN DistError("Io")
    ELSE IF loc.fs = "dir" THEN Classified("DirectorySource", name, FALSE)
    ELSE IF IsWheel(loc.ext)
    THEN IF loc.parsed = NoParse THEN DistError("WheelFilename")
         ELSE IF loc.parsed # name THEN DistError("PackageNameMismatch")
         ELSE IF editable THEN DistError("EditableFile")
         ELSE Classified("PathBuilt", loc.parsed, FALSE)
    ELSE IF editable THEN DistError("EditableFile")
         ELSE Classified("PathSource", name, FALSE)

\* Dist::from_file_url.
FromFileUrl(name, loc, editable) ==
    IF loc.fs = "missing" THEN DistError("NotFound")
    ELSE IF loc.fs = "denied" THEN DistError("Io")
    ELSE IF loc.fs = "dir" THEN Classified("DirectorySource", name, editable)
    ELSE IF IsWheel(loc.ext)
    THEN IF loc.parsed = NoParse THEN DistError("WheelFilename")
         ELSE IF loc.parsed # name THEN DistError("PackageNameMismatch")
         ELSE IF editable THEN DistError("EditableFile")
         ELSE Classified("PathBuilt", loc.parsed, FALSE)
    ELSE IF editable THEN DistError("EditableFile")
         ELSE Classified("PathSource", name, FALSE)

\* Dist::from_git_url.
FromGitUrl(name) == Classified("GitSource", name, FALSE)

\* Dist::from_url.
FromUrl(name, kind, loc) ==
    CASE kind = "Archive" -> FromHttpUrl(name, loc)
      [] kind = "Path" -> FromFileUrl(name, loc, FALSE)
      [] kind = "Git" -> FromGitUrl(name)

\* Dist::from_editable: the path of the LocalEditable is not looked at.
FromEditable(name) == Classified("DirectorySource", name, TRUE)

CallFromUrl ==
    /\ distPc = "ready" /\ distIn.op = "from_url"
    /\ distOut' = FromUrl(distIn.name, distIn.kind, distIn.loc)
    /\ distPc' = "done"
    /\ UNCHANGED <<distIn, syncVars, chunkVars, aggVars, wsVars, idVars, discVars, repVars>>

CallFromHttpUrl ==
    /\ distPc = "ready" /\ distIn.op = "from_http_url"
    /\ distOut' = FromHttpUrl(distIn.name, distIn.loc)
    /\ distPc' = "done"
    /\ UNCHANGED <<distIn, syncVars, chunkVars, aggVars, wsVars, idVars, discVars, repVars>>

CallFromFileUrl ==
    /\ distPc = "ready" /\ distIn.op = "from_file_url"
    /\ distOut' = FromFileUrl(distIn.name, distIn.loc, distIn.editable)
    /\ distPc' = "done"
    /\ UNCHANGED <<distIn, syncVars, chunkVars, aggVars, wsVars, idVars, discVars, repVars>>

CallFromGitUrl ==
    /\ distPc = "ready" /\ distIn.op = "from_git_url"
    /\ distOut' = FromGitUrl(distIn.name)
    /\ distPc' = "done"
    /\ UNCHANGED <<distIn, syncVars, chunkVars, aggVars, wsVars, idVars, discVars, repVars>>

CallFromEditable ==
    /\ distPc = "ready" /\ distIn.op = "from_editable"
    /\ distOut' = FromEditable(distIn.name)
    /\ distPc' = "done"
    /\ UNCHANGED <<distIn, syncVars, chunkVars, aggVars, wsVars, idVars, discVars, repVars>>

NextDist ==
    \/ CallFromUrl
    \/ CallFromHttpUrl
    \/ CallFromFileUrl
    \/ CallFromGitUrl
    \/ CallFromEditable

\* ------------------------------------------------------------------ Identifier
\* At most this many content digests declared for one registry file.
MaxHashes == 2

Digests == {"h1", "h2"}
HashLists == SeqsUpTo(Digests, MaxHashes)

\* URLs as written: x and x/ differ cosmetically, x@r is x at a revision.
IdUrls == Urls \cup {"x@r"}

\* The canonicalization used for the resource identity also drops the
\* revision.
RepositoryUrl(u) == IF u = "x@r" THEN "x" ELSE CanonicalUrl(u)

\* FileLocation: RelativeUrl(base, url), AbsoluteUrl(url) or Path(path).
Location(kind, base, url, path) ==
    [kind |-> kind, base |-> base, url |-> url, path |-> path]
FileLocations ==
    {Location("RelativeUrl", "b", u, "") : u \in IdUrls}
    \cup {Location("AbsoluteUrl", "", u, "") : u \in IdUrls}
    \cup {Location("Path", "", "", q) : q \in {"p", "q"}}

\* File: the declared digests and the location.
Files == [hashes : HashLists, url : FileLocations]

\* A wheel of a registry distribution that is not its best wheel.
OtherWheel == [hashes |-> <<"h0">>, url |-> Location("AbsoluteUrl", "", "o", "")]

RegistryVariants == {"RegistryBuilt", "RegistrySource"}
UrlVariants ==
    {"DirectUrlBuilt", "DirectUrlSource", "PathBuilt", "PathSource",
     "DirectorySource", "GitSource"}

\* A distribution, as far as its identity reads it: the files of a registry
\* distribution with the index of the best wheel, or the URL of any other.
IdDists ==
    {[variant |-> "RegistryBuilt", files |-> <<f, OtherWheel>>, best |-> 1, url |-> NoUrl] :
        f \in Files}
    \cup {[variant |-> "RegistryBuilt", files |-> <<OtherWheel, f>>, best |-> 2, url |-> NoUrl] :
        f \in Files}
    \cup {[variant |-> "RegistrySource", files |-> <<f>>, best |-> 1, url |-> NoUrl] :
        f \in Files}
    \cup {[variant |-> v, files |-> <<>>, best |-> 1, url |-> u] :
        v \in UrlVariants, u \in IdUrls}

Id(kind, a, b) == [kind |-> kind, a |-> a, b |-> b]

\* The URL is keyed as written.
UrlDistributionIdVerbatim(url) == Id("Url", url, "")

\* impl Identifier for Url.
UrlDistributionId(url) == Id("Url", CanonicalUrl(url), "")
UrlResourceId(url) == Id("Url", RepositoryUrl(url), "")

\* impl Identifier for Path.
PathId(path) == Id("PathBuf", path, "")

\* impl Identifier for FileLocation: distribution_id and resource_id have
\* the same shape.
FileLocationId(loc) ==
    CASE loc.kind = "RelativeUrl" -> Id("RelativeUrl", loc.base, loc.url)
      [] loc.kind = "AbsoluteUrl" -> Id("AbsoluteUrl", loc.url, "")
      [] loc.kind = "Path" -> PathId(loc.path)

\* The last digest declared is taken.
FileIdLastHash(file) ==
    IF file.hashes # <<>>
    THEN Id("Digest", file.hashes[Len(file.hashes)], "")
    ELSE FileLocationId(file.url)

\* impl Identifier for File: distribution_id and resource_id have the same
\* shape.
FileId(file) ==
    IF file.hashes # <<>>
    THEN Id("Digest", Head(file.hashes), "")
    ELSE FileLocationId(file.url)

\* RegistryBuiltDist::best_wheel, and the file of a RegistrySourceDist.
BestFile(dist) == dist.files[dist.best]

\* impl Identifier for Dist, through BuiltDist / SourceDist and the variants.
DistributionId(dist) ==
    IF dist.variant \in RegistryVariants
    THEN FileId(BestFile(dist))
    ELSE UrlDistributionId(dist.url)

ResourceId(dist) ==
    IF dist.variant \in RegistryVariants
    THEN FileId(BestFile(dist))
    ELSE UrlResourceId(dist.url)

Identity(dist) == [distribution |-> DistributionId(dist), resource |-> ResourceId(dist)]

\* distribution_id and resource_id of two distributions.
ComputeIds ==
    /\ idPc = "ready"
    /\ idOut' = <<Identity(idIn[1]), Identity(idIn[2])>>
    /\ idPc' = "done"
    /\ UNCHANGED <<idIn, idAgain, syncVars, chunkVars, aggVars, wsVars, distVars, discVars, repVars>>

\* distribution_id and resource_id of the first distribution, once more.
ComputeAgain ==
    /\ idPc = "done"
    /\ idAgain' = Identity(idIn[1])
    /\ idPc' = "again"
    /\ UNCHANGED <<idIn, idOut, syncVars, chunkVars, aggVars, wsVars, distVars, discVars, repVars>>

NextId == ComputeIds \/ ComputeAgain

\* ------------------------------------------------------------------ ProjectWorkspace::discover
\* The directories: R holds W, W holds A and B, A holds S.
Dirs == {"R", "W", "A", "B", "S"}

\* Path::ancestors: the path itself, then its parents up to the top.
Ancestors(path) ==
    CASE path = "S" -> <<"S", "A", "W", "R">>
      [] path = "A" -> <<"A", "W", "R">>
      [] path = "B" -> <<"B", "W", "R">>
      [] path = "W" -> <<"W", "R">>
      [] path = "R" -> <<"R">>

\* A pyproject.toml: whether the file exists, the name of its [project]
\* table (NoProject without one), whether it has a [tool.uv.workspace]
\* table, the directories its member globs yield in order, the directories
\* its exclude globs yield, and its [tool.uv.sources] table.
Manifest(project, workspace, members, exclude, sources) ==
    [exists |-> TRUE, project |-> project, workspace |-> workspace,
     members |-> members, exclude |-> exclude, sources |-> sources]
NoManifest ==
    [exists |-> FALSE, project |-> NoProject, workspace |-> FALSE,
     members |-> <<>>, exclude |-> {}, sources |-> {}]
ProjectOnly(name, dir) == Manifest(name, FALSE, <<>>, {}, {dir})
NeitherTable == Manifest(NoProject, FALSE, <<>>, {}, {})

\* The manifests of the member directories A and B.
LeafManifests(dir) ==
    {NoManifest, NeitherTable, ProjectOnly("n1", dir), ProjectOnly("n2", dir)}

MemberLists == {<<>>, <<"A">>, <<"B">>, <<"A", "B">>, <<"B", "A">>}

\* The manifests of W: a workspace over A and B, with or without a project.
MidManifests ==
    {NoManifest, NeitherTable, ProjectOnly("n1", "W"), ProjectOnly("n3", "W")}
    \cup {Manifest(n, TRUE, ms, ex, {"W"}) :
            n \in {NoProject, "n1", "n3"}, ms \in MemberLists, ex \in SUBSET {"A", "B"}}

\* The manifests of R.
TopManifests ==
    {NoManifest, ProjectOnly("n4", "R"),
     Manifest(NoProject, TRUE, <<"A", "B">>, {}, {"R"}),
     Manifest(NoProject, TRUE, <<"W">>, {"A"}, {"R"})}

FileSystems ==
    {[d \in Dirs |-> CASE d = "R" -> r [] d = "W" -> w [] d = "A" -> a
                       [] d = "B" -> b [] d = "S" -> NoManifest] :
        r \in TopManifests, w \in MidManifests,
        a \in LeafManifests("A"), b \in LeafManifests("B")}

NoPackages == [n \in {} |-> ""]

\* An entry already in the map is kept.
InsertKeepFirst(map, name, root) ==
    [n \in DOMAIN map \cup {name} |-> IF n \in DOMAIN map THEN map[n] ELSE root]

\* BTreeMap::insert: a later entry of the same name replaces the earlier one.
Insert(map, name, root) ==
    [n \in DOMAIN map \cup {name} |-> IF n = name THEN root ELSE map[n]]

DiscoverErr(kind, at) ==
    [ok |-> FALSE, err |-> kind, at |-> at, project_root |-> "", project_name |-> NoProject,
     root |-> "", packages |-> NoPackages, sources |-> {}]
Discovered(project_root, project_name, root, pkgs, sources) ==
    [ok |-> TRUE, err |-> "", at |-> "", project_root |-> project_root,
     project_name |-> project_name, root |-> root, packages |-> pkgs,
     sources |-> sources]

\* The ancestors that hold a pyproject.toml, nearest first.
WithManifest(tree, paths) == SelectSeq(paths, LAMBDA d : tree[d].exists)

\* is_excluded_from_workspace.
IsExcludedFromWorkspace(tree, workspace_root, project_path) ==
    project_path \in tree[workspace_root].exclude

\* Manifests without a workspace table are passed over.
FindWorkspaceSkipping(tree, project_root) ==
    LET found == SelectSeq(Tail(Ancestors(project_root)), LAMBDA d : tree[d].workspace)
    IN  IF found = <<>> THEN [err |-> "", at |-> "", found |-> FALSE, root |-> ""]
        ELSE IF IsExcludedFromWorkspace(tree, found[1], project_root)
        THEN [err |-> "", at |-> "", found |-> FALSE, root |-> ""]
        ELSE [err |-> "", at |-> "", found |-> TRUE, root |-> found[1]]

\* find_workspace: the nearest manifest above the project decides.
FindWorkspace(tree, project_root) ==
    LET found == WithManifest(tree, Tail(Ancestors(project_root)))
    IN  IF found = <<>> THEN [err |-> "", at |-> "", found |-> FALSE, root |-> ""]
        ELSE IF tree[found[1]].workspace
        THEN IF IsExcludedFromWorkspace(tree, found[1], project_root)
             THEN [err |-> "", at |-> "", found |-> FALSE, root |-> ""]
             ELSE [err |-> "", at |-> "", found |-> TRUE, root |-> found[1]]
        ELSE IF tree[found[1]].project # NoProject
        THEN [err |-> "", at |-> "", found |-> FALSE, root |-> ""]
        ELSE [err |-> "MissingProject", at |-> found[1], found |-> FALSE, root |-> ""]

\* The loop over the member globs of from_project: every directory a glob
\* yields is read and inserted under its package name; the first unreadable
\* or project-less manifest returns the error.
RECURSIVE CollectMembers(_, _, _)
CollectMembers(tree, acc, members) ==
    IF acc.err # "" \/ members = <<>> THEN acc
    ELSE LET m == Head(members)
         IN  IF ~tree[m].exists
             THEN [acc EXCEPT !.err = "Io", !.at = m]
             ELSE IF tree[m].project = NoProject
             THEN [acc EXCEPT !.err = "MissingProject", !.at = m]
             ELSE CollectMembers(tree,
                                 [acc EXCEPT !.packages = Insert(@, tree[m].project, m)],
                                 Tail(members))

\* ProjectWorkspace::from_project.
FromProject(tree, project_path, project_name) ==
    LET workspace == IF tree[project_path].workspace
                     THEN [err |-> "", at |-> "", found |-> TRUE, root |-> project_path]
                     ELSE FindWorkspace(tree, project_path)
        own == Insert(NoPackages, project_name, project_path)
    IN  IF workspace.err # "" THEN DiscoverErr(workspace.err, workspace.at)
        ELSE IF ~workspace.found
        THEN Discovered(project_path, project_name, project_path, own, {})
        ELSE LET workspace_root == workspace.root
                 withRoot == IF workspace_root # project_path
                                /\ tree[workspace_root].project # NoProject
                             THEN Insert(own, tree[workspace_root].project, workspace_root)
                             ELSE own
                 all == CollectMembers(tree, [err |-> "", at |-> "", packages |-> withRoot],
                                       tree[workspace_root].members)
             IN  IF all.err # "" THEN DiscoverErr(all.err, all.at)
                 ELSE Discovered(project_path, project_name, workspace_root,
                                 all.packages, tree[workspace_root].sources)

\* ProjectWorkspace::from_project_root.
FromProjectRoot(tree, project_root) ==
    IF tree[project_root].project = NoProject
    THEN DiscoverErr("MissingProject", project_root)
    ELSE FromProject(tree, project_root, tree[project_root].project)

\* Manifests without a project table are passed over.
DiscoverSkipping(tree, path) ==
    LET found == SelectSeq(Ancestors(path), LAMBDA d : tree[d].project # NoProject)
    IN  IF found = <<>> THEN DiscoverErr("MissingPyprojectToml", "")
        ELSE FromProjectRoot(tree, found[1])

\* ProjectWorkspace::discover.
Discover(tree, path) ==
    LET found == WithManifest(tree, Ancestors(path))
    IN  IF found = <<>> THEN DiscoverErr("MissingPyprojectToml", "")
        ELSE FromProjectRoot(tree, found[1])

MemberRoots(out) == {out.packages[n] : n \in DOMAIN out.packages}

\* Discovery from the start path.
DiscoverFromStart ==
    /\ discPc = "ready"
    /\ discOut' = Discover(fs, start)
    /\ discPc' = "done"
    /\ UNCHANGED <<fs, start, discFrom, discAgain,
                   syncVars, chunkVars, aggVars, wsVars, distVars, idVars, repVars>>

\* Discovery once more, from a member of the workspace just discovered.
DiscoverFromMember ==
    /\ discPc = "done"
    /\ discOut.ok
    /\ \E m \in MemberRoots(discOut) :
          /\ discFrom' = m
          /\ discAgain' = Discover(fs, m)
    /\ discPc' = "again"
    /\ UNCHANGED <<fs, start, discOut,
                   syncVars, chunkVars, aggVars, wsVars, distVars, idVars, repVars>>

NextDisc == DiscoverFromStart \/ DiscoverFromMember

\* ------------------------------------------------------------------ change report
Removed == "Removed"
Added == "Added"

ChangeEvent(d, kind) == [dist |-> d, kind |-> kind]

\* A PackageName orders as its normalized string.
NameRank(n) == IF n = "a" THEN 1 ELSE 2

\* ChangeEventKind orders as declared: Removed, then Added.
KindRank(kind) == IF kind = Removed THEN 1 ELSE 2

EventLessAddedFirst(a, b) ==
    \/ NameRank(NameOf(a.dist)) < NameRank(NameOf(b.dist))
    \/ /\ NameOf(a.dist) = NameOf(b.dist)
       /\ \/ KindRank(a.kind) > KindRank(b.kind)
          \/ /\ a.kind = b.kind
             /\ VerOf(a.dist) < VerOf(b.dist)

\* The comparator handed to sorted_unstable_by: name, then kind, then
\* installed version.
EventLess(a, b) ==
    \/ NameRank(NameOf(a.dist)) < NameRank(NameOf(b.dist))
    \/ /\ NameOf(a.dist) = NameOf(b.dist)
       /\ \/ KindRank(a.kind) < KindRank(b.kind)
          \/ /\ a.kind = b.kind
             /\ VerOf(a.dist) < VerOf(b.dist)

RECURSIVE InsertSorted(_, _)
InsertSorted(e, sorted) ==
    IF sorted = <<>> THEN <<e>>
    ELSE IF EventLess(e, Head(sorted)) THEN <<e>> \o sorted
    ELSE <<Head(sorted)>> \o InsertSorted(e, Tail(sorted))

RECURSIVE SortedUnstableBy(_)
SortedUnstableBy(events) ==
    IF events = <<>> THEN <<>>
    ELSE InsertSorted(Head(events), SortedUnstableBy(Tail(events)))

EventsOf(dists, kind) == [i \in DOMAIN dists |-> ChangeEvent(dists[i], kind)]

\* extraneous, chained with reinstalls, as Removed; chained with wheels, as
\* Added; sorted.
ChangeReport(extraneous, reinstalls, wheels) ==
    SortedUnstableBy(EventsOf(extraneous \o reinstalls, Removed)
                     \o EventsOf(wheels, Added))

\* The vectors of a plan hold their distributions in any order.
RECURSIVE Orders(_)
Orders(S) ==
    IF S = {} THEN {<<>>}
    ELSE UNION {{<<x>> \o rest : rest \in Orders(S \ {x})} : x \in S}

\* What the planner hands over for a site-packages directory, which may hold
\* several installs of one name, and the wheels that were linked.
RepInputs ==
    UNION {LET p == PlannerBuild(req, sp, forced, cache)
           IN [extraneous : Orders(p.extraneous),
               reinstalls : Orders(p.reinstalls),
               wheels : Orders(p.cached \cup p.remote)]
           : <<req, sp, forced, cache>> \in
               [Names -> 0..MaxVer] \X (SUBSET Dists) \X {{}, Names} \X {{}, {"a"}}}

EmitReport ==
    /\ repPc = "ready"
    /\ repOut' = ChangeReport(repIn.extraneous, repIn.reinstalls, repIn.wheels)
    /\ repPc' = "done"
    /\ UNCHANGED <<repIn, syncVars, chunkVars, aggVars, wsVars, distVars, idVars, discVars>>

NextRep == EmitReport

\* ------------------------------------------------------------------ specification
SyncIdle ==
    /\ snapshot = [r \in Runs |-> {}]
    /\ plan = [r \in Runs |-> EmptyPlan]
    /\ fetched = [r \in Runs |-> {}]
    /\ attempted = [r \in Runs |-> {}]
    /\ warned = [r \in Runs |-> {}]
    /\ uninstErr = [r \in Runs |-> {}]
    /\ linked = [r \in Runs |-> {}]
    /\ log = [r \in Runs |-> <<>>]
    /\ failedAt = [r \in Runs |-> ""]
    /\ fetchErr = [r \in Runs |-> "none"]
    /\ diagnosed = [r \in Runs |-> FALSE]
    /\ lockHolder = NoRun
    /\ opRuns = <<>>

ChunkIdle ==
    /\ cpc = "idle"
    /\ dkey = [t \in Demands |-> "k1"]
    /\ dstate = [t \in Demands |-> "idle"]
    /\ inFlight = [m \in MapIds |-> [k \in Keys |-> "absent"]]
    /\ fetchCalls = [k \in Keys |-> 0]
    /\ chunkCached = {}
    /\ chunkSite = {}

\* One pip_sync run.
InitOne ==
    /\ SyncIdle /\ ChunkIdle
    /\ pc = [r \in Runs |-> IF r = "r1" THEN "aggregate" ELSE "idle"]
    /\ \E i \in Inputs : input = [r \in Runs |-> IF r = "r1" THEN i ELSE NoInput]
    /\ site \in CleanSites
    /\ site0 = site

\* Two pip_sync runs on the same environment.
InitTwo ==
    /\ SyncIdle /\ ChunkIdle
    /\ pc = [r \in Runs |-> "aggregate"]
    /\ input \in [Runs -> SmallInputs]
    /\ site \in {S \in CleanSites : Cardinality(S) <= 1}
    /\ site0 = site

\* One install_chunk.
InitChunk ==
    /\ SyncIdle
    /\ pc = [r \in Runs |-> "idle"]
    /\ input = [r \in Runs |-> NoInput]
    /\ site = {}
    /\ site0 = {}
    /\ cpc = "fetch"
    /\ dkey \in [Demands -> Keys]
    /\ dstate = [t \in Demands |-> "queued"]
    /\ inFlight = [m \in MapIds |-> [k \in Keys |-> "absent"]]
    /\ fetchCalls = [k \in Keys |-> 0]
    /\ chunkCached \in SUBSET CachedIds
    /\ chunkSite = {}

AggIdle ==
    /\ aggPc = "idle"
    /\ aggIn = NoAggInput
    /\ aggOut = NotReturned
    /\ aggTwice = NotReturned

WsIdle ==
    /\ wsPc = "idle"
    /\ packages = <<>>
    /\ queue = <<>>
    /\ seen_editables = {}
    /\ editables = <<>>
    /\ requirements = <<>>
    /\ visits = <<>>

DistIdle ==
    /\ distPc = "idle"
    /\ distIn = <<>>
    /\ distOut = <<>>

IdIdle ==
    /\ idPc = "idle"
    /\ idIn = <<>>
    /\ idOut = <<>>
    /\ idAgain = <<>>

DiscIdle ==
    /\ discPc = "idle"
    /\ fs = <<>>
    /\ start = ""
    /\ discOut = <<>>
    /\ discFrom = ""
    /\ discAgain = <<>>

RepIdle ==
    /\ repPc = "idle"
    /\ repIn = <<>>
    /\ repOut = <<>>

PureIdle == AggIdle /\ WsIdle /\ DistIdle /\ IdIdle /\ DiscIdle /\ RepIdle

\* No pip_sync run and no install_chunk.
PipelineIdle ==
    /\ SyncIdle /\ ChunkIdle
    /\ pc = [r \in Runs |-> "idle"]
    /\ input = [r \in Runs |-> NoInput]
    /\ site = {}
    /\ site0 = {}

Init == (InitOne \/ InitTwo \/ InitChunk) /\ PureIdle

Next == NextSync \/ NextChunk

Spec == Init /\ [][Next]_vars

\* One from_sources call, and the same call with every source given twice.
InitAgg ==
    /\ PipelineIdle /\ WsIdle /\ DistIdle /\ IdIdle /\ DiscIdle /\ RepIdle
    /\ aggPc = "ready"
    /\ aggIn \in AggInputs
    /\ aggOut = NotReturned
    /\ aggTwice = NotReturned

SpecAgg == InitAgg /\ [][NextAgg]_vars

\* One parse_direct_pyproject_toml call on the manifest of the project.
InitWs ==
    /\ PipelineIdle /\ AggIdle /\ DistIdle /\ IdIdle /\ DiscIdle /\ RepIdle
    /\ wsPc = "ready"
    /\ packages \in Workspaces
    /\ queue = <<>>
    /\ seen_editables = {}
    /\ editables = <<>>
    /\ requirements = <<>>
    /\ visits = [m \in Members |-> 0]

SpecWs == InitWs /\ [][NextWs]_vars

\* The loop is sequential code: an iteration that can run does run.
SpecWsFair == SpecWs /\ WF_vars(NextWs)

\* One classification of a requirement's locator.
InitDist ==
    /\ PipelineIdle /\ AggIdle /\ WsIdle /\ IdIdle /\ DiscIdle /\ RepIdle
    /\ distPc = "ready"
    /\ distIn \in DistInputs
    /\ distOut = <<>>

SpecDist == InitDist /\ [][NextDist]_vars

\* The identities of two distributions.
InitId ==
    /\ PipelineIdle /\ AggIdle /\ WsIdle /\ DistIdle /\ DiscIdle /\ RepIdle
    /\ idPc = "ready"
    /\ idIn \in IdDists \X IdDists
    /\ idOut = <<>>
    /\ idAgain = <<>>

SpecId == InitId /\ [][NextId]_vars

\* One discovery from a start path in a tree of manifests.
InitDisc ==
    /\ PipelineIdle /\ AggIdle /\ WsIdle /\ DistIdle /\ IdIdle /\ RepIdle
    /\ discPc = "ready"
    /\ fs \in FileSystems
    /\ start \in Dirs
    /\ discOut = <<>>
    /\ discFrom = ""
    /\ discAgain = <<>>

SpecDisc == InitDisc /\ [][NextDisc]_vars

\* The change report of one plan and its linked wheels.
InitRep ==
    /\ PipelineIdle /\ AggIdle /\ WsIdle /\ DistIdle /\ IdIdle /\ DiscIdle
    /\ repPc = "ready"
    /\ repIn \in RepInputs
    /\ repOut = <<>>

SpecRep == InitRep /\ [][NextRep]_vars

\* ------------------------------------------------------------------ properties
Terminated(r) == pc[r] \in {"done", "failed"}
Events(r) == {log[r][i] : i \in DOMAIN log[r]}
SameName(d, e) == NameOf(d) = NameOf(e)
OtherRunsIdle(r) == \A q \in Runs \ {r} : pc[q] = "idle"

\* C1: for every resource identity, the fetch/build operation is started at
\* most once however many demands share it, exactly once when all demands of a
\* key have been served, and all demands of one key end with the same outcome.
AtMostOnceFetch ==
    /\ \A k \in Keys : fetchCalls[k] <= 1
    /\ \A t \in Demands : dstate[t] \in {"ok", "err"} => fetchCalls[dkey[t]] = 1
    /\ \A t, u \in Demands :
          (dkey[t] = dkey[u] /\ dstate[t] \in {"ok", "err"} /\ dstate[u] \in {"ok", "err"})
             => dstate[t] = dstate[u]

\* Three demands of one key have all been served by one fetch.
AtMostOnceFetchWitness ==
    /\ cpc = "install"
    /\ \A t \in Demands : dkey[t] = "k1" /\ dstate[t] = "ok"
    /\ fetchCalls["k1"] = 1

\* C2: once a wheel has been linked, the uninstall call of every distribution
\* in extraneous and reinstalls has returned.
LinkAfterEveryUninstall ==
    \A r \in Runs :
        linked[r] # {} => (plan[r].extraneous \cup plan[r].reinstalls) \subseteq attempted[r]

LinkAfterEveryUninstallWitness ==
    \E r \in Runs :
        /\ linked[r] # {}
        /\ plan[r].extraneous # {}
        /\ plan[r].reinstalls # {}

\* C3 (as stated): a fetch has happened only after the uninstall of every
\* distribution in extraneous and reinstalls.
FetchAfterUninstall ==
    \A r \in Runs :
        "fetch" \in Events(r)
            => (plan[r].extraneous \cup plan[r].reinstalls) \subseteq attempted[r]

StageRank(e) ==
    CASE e = "fetch" -> 1
      [] e = "uninstall" -> 2
      [] e = "link" -> 3
      [] OTHER -> 4

\* C3 (amended): the stages act in the order fetch-and-build, uninstall, link,
\* bytecode compilation, and each begins only when the one before has finished.
StageOrder ==
    \A r \in Runs :
        /\ \A i, j \in DOMAIN log[r] : i < j => StageRank(log[r][i]) < StageRank(log[r][j])
        /\ "uninstall" \in Events(r) => plan[r].remote \subseteq fetched[r]
        /\ "link" \in Events(r) =>
              (plan[r].extraneous \cup plan[r].reinstalls) \subseteq attempted[r]
        /\ "compile" \in Events(r) => (fetched[r] \cup plan[r].cached) \subseteq linked[r]

StageOrderWitness ==
    \E r \in Runs : log[r] = <<"fetch", "uninstall", "link", "compile">>

\* C4 (as stated): site-packages never holds two installs of one package name.
NoTwoInstalls == \A d, e \in site : SameName(d, e) => d = e

\* C4 (amended): two installs of one package name are in site-packages only
\* when the uninstall of an install of that name reported a missing RECORD.
NoTwoInstallsUnlessMissingRecord ==
    \A d, e \in site :
        (SameName(d, e) /\ d # e) => \E r \in Runs : \E w \in warned[r] : SameName(w, d)

\* A reinstalled package: the old install is gone and the new one is linked.
ReinstallWitness ==
    \E r \in Runs : \E w \in linked[r] : \E o \in plan[r].reinstalls :
        SameName(o, w) /\ o # w /\ o \notin site /\ w \in site

\* C5: a run holds the environment lock from its first uninstall or link until
\* it returns, and the file operations of two runs never interleave.
LockCoversFileOperations ==
    /\ \A r \in Runs :
          (~Terminated(r) /\ (pc[r] \in {"uninstall", "install"}
                              \/ attempted[r] \cup linked[r] # {}))
             => lockHolder = r
    /\ \A i, j \in DOMAIN opRuns : i # j => opRuns[i] # opRuns[j]

\* Both runs have uninstalled or linked something.
LockCoversFileOperationsWitness ==
    /\ Len(opRuns) = 2
    /\ \A r \in Runs : attempted[r] # {} /\ linked[r] # {}

\* C6 (as stated): after a fetch failure that is neither a hash nor a name
\* mismatch, what was fetched or cached is installed all the same.
ErrorLocalityInSync ==
    \A r \in Runs :
        (pc[r] = "failed" /\ failedAt[r] = "download" /\ fetchErr[r] = "other")
            => (fetched[r] \cup plan[r].cached) \subseteq linked[r]

\* C6 (amended): install_chunk installs what was fetched or cached whatever
\* failed to fetch; pip_sync returns any download error and installs nothing.
ErrorLocalityInChunk ==
    /\ cpc = "done" => chunkSite = FetchedWheels \cup chunkCached
    /\ \A r \in Runs : failedAt[r] = "download" => pc[r] = "failed" /\ linked[r] = {}

ErrorLocalityInChunkWitness ==
    /\ cpc = "done"
    /\ \E t, u \in Demands : dstate[t] = "err" /\ dstate[u] = "ok" /\ dkey[u] \in chunkSite
    /\ chunkCached # {} /\ chunkCached \subseteq chunkSite

\* C7 (as stated): the four plan classes are pairwise disjoint over names.
PlanDisjoint ==
    \A r \in Runs :
        /\ NamesOf(plan[r].cached) \cap NamesOf(plan[r].remote) = {}
        /\ NamesOf(plan[r].cached) \cap NamesOf(plan[r].reinstalls) = {}
        /\ NamesOf(plan[r].cached) \cap NamesOf(plan[r].extraneous) = {}
        /\ NamesOf(plan[r].remote) \cap NamesOf(plan[r].reinstalls) = {}
        /\ NamesOf(plan[r].remote) \cap NamesOf(plan[r].extraneous) = {}
        /\ NamesOf(plan[r].reinstalls) \cap NamesOf(plan[r].extraneous) = {}

\* C7 (amended): cached, remote and extraneous are pairwise disjoint over
\* names and so are reinstalls and extraneous, while every name in reinstalls
\* is also the name of a cached or remote distribution.
PlanDisjointButReinstalls ==
    \A r \in Runs :
        /\ NamesOf(plan[r].cached) \cap NamesOf(plan[r].remote) = {}
        /\ NamesOf(plan[r].cached) \cap NamesOf(plan[r].extraneous) = {}
        /\ NamesOf(plan[r].remote) \cap NamesOf(plan[r].extraneous) = {}
        /\ NamesOf(plan[r].reinstalls) \cap NamesOf(plan[r].extraneous) = {}
        /\ NamesOf(plan[r].reinstalls)
              \subseteq NamesOf(plan[r].cached) \cup NamesOf(plan[r].remote)

\* A plan that replaces an install and holds a cached and a remote wheel.
PlanDisjointButReinstallsWitness ==
    \E r \in Runs :
        /\ pc[r] = "resolve"
        /\ plan[r].reinstalls # {} /\ plan[r].extraneous = {}
        /\ plan[r].cached # {} /\ plan[r].remote # {}

\* C8 (as stated): without `strict`, an installed distribution that matches no
\* desired requirement is neither extraneous nor uninstalled.
ExtraneousOnlyIfStrict ==
    \A r \in Runs :
        ~input[r].strict =>
            \A d \in snapshot[r] :
                input[r].desired[NameOf(d)] = 0
                    => d \notin plan[r].extraneous /\ d \notin attempted[r]

\* C8 (amended): with or without `strict`, once the uninstall stage is over
\* every installed distribution that matches no desired requirement has been
\* uninstalled as extraneous (it stays only on a missing RECORD); `strict`
\* decides nothing but the final diagnostics.
ExtraneousAlwaysRemoved ==
    \A r \in Runs :
        /\ pc[r] \in {"install", "compile", "report", "done"} =>
              \A d \in snapshot[r] :
                  input[r].desired[NameOf(d)] = 0
                      => /\ d \in plan[r].extraneous
                         /\ d \in attempted[r]
                         /\ (d \in site /\ pc[r] # "done") => d \in warned[r]
        /\ diagnosed[r] => input[r].strict
        /\ (pc[r] = "done" /\ log[r] # <<>>) => diagnosed[r] = input[r].strict

ExtraneousAlwaysRemovedWitness ==
    \E r \in Runs :
        /\ ~input[r].strict
        /\ pc[r] = "done"
        /\ plan[r].extraneous # {}
        /\ plan[r].extraneous \cap site = {}
        /\ plan[r].extraneous \subseteq site0

EarlyStages ==
    {"aggregate", "environment", "externally_managed", "lock", "prepare",
     "plan", "no_solution", "resolve", "download"}

\* C9: a run that failed up to and including the download stage has performed
\* no uninstall and no link, and alone it leaves site-packages as it was.
EarlyFailureLeavesEnvironment ==
    \A r \in Runs :
        (pc[r] = "failed" /\ failedAt[r] \in EarlyStages)
            => /\ attempted[r] = {}
               /\ linked[r] = {}
               /\ OtherRunsIdle(r) => site = site0

\* A name mismatch at download, with installs that were to be replaced.
EarlyFailureWitness ==
    \E r \in Runs :
        /\ pc[r] = "failed" /\ failedAt[r] = "download" /\ fetchErr[r] = "name"
        /\ plan[r].reinstalls # {} /\ plan[r].extraneous # {}

\* C10 (as stated): after any failed uninstall, no wheel is linked.
NoLinkAfterAnyUninstallFailure ==
    \A r \in Runs : (warned[r] \cup uninstErr[r]) # {} => linked[r] = {}

\* C10 (amended): after an uninstall that failed with an error other than a
\* missing RECORD, the run has returned the error and linked no wheel.
NoLinkAfterUninstallError ==
    \A r \in Runs :
        uninstErr[r] # {}
            => pc[r] = "failed" /\ failedAt[r] = "uninstall" /\ linked[r] = {}

NoLinkAfterUninstallErrorWitness ==
    \E r \in Runs :
        /\ uninstErr[r] # {}
        /\ fetched[r] \cup plan[r].cached # {}
        /\ UninstallPending(r) # {}

Aggregated == aggPc \in {"once", "twice"}
AllSources == aggIn.reqs \o aggIn.cons \o aggIn.ovs

\* The index URLs the sources declare, in the order the sources are read.
DeclaredUrls ==
    SelectSeq([i \in DOMAIN AllSources |-> FromSource(AllSources[i]).index_url],
              LAMBDA u : u # NoUrl)

UrlsDiffer ==
    \E i, j \in DOMAIN DeclaredUrls :
        CanonicalUrl(DeclaredUrls[i]) # CanonicalUrl(DeclaredUrls[j])

UnnamedInConstraints ==
    \E i \in DOMAIN aggIn.cons : HasUnnamed(FromSource(aggIn.cons[i]).requirements)

RECURSIVE Concat(_)
Concat(lists) ==
    IF lists = <<>> THEN <<>> ELSE Head(lists) \o Concat(Tail(lists))

\* What the sources hold in one field, in the order of the sources.
Flat(sources, field(_)) ==
    Concat([i \in DOMAIN sources |-> field(FromSource(sources[i]))])

Count(e, list) == Cardinality({i \in DOMAIN list : list[i] = e})

\* Every entry of `once` is in `twice` twice as often, and nothing else is.
Doubled(once, twice) ==
    /\ Len(twice) = 2 * Len(once)
    /\ \A i \in DOMAIN once : Count(once[i], twice) = 2 * Count(once[i], once)

\* C12 as stated: from_sources fails with "multiple index URLs" exactly when
\* two sources declare index URLs that differ canonically.
MultipleIndexUrlsIffDiffer ==
    Aggregated => (aggOut.err = MultipleIndexUrls <=> UrlsDiffer)

\* C12: when two sources declare canonically different index URLs,
\* from_sources fails: with "multiple index URLs", or, only if a constraint
\* source yields an unnamed entry, with the unnamed-constraint error; it
\* never fails with "multiple index URLs" when all declared URLs are
\* canonically equal.
MultipleIndexUrlsUnlessUnnamed ==
    Aggregated =>
        /\ UrlsDiffer => aggOut.err \in {MultipleIndexUrls, UnnamedConstraint}
        /\ (UrlsDiffer /\ ~UnnamedInConstraints) => aggOut.err = MultipleIndexUrls
        /\ ~UrlsDiffer => aggOut.err # MultipleIndexUrls

\* A constraint source and an override source disagree; so do sources that
\* agree canonically without being written alike.
MultipleIndexUrlsWitness ==
    /\ Aggregated
    /\ aggIn.reqs = <<>> /\ aggIn.cons # <<>> /\ aggIn.ovs # <<>>
    /\ UrlsDiffer
    /\ aggOut.err = MultipleIndexUrls

\* C13 as stated: the index URL of the result is the first one declared.
FirstIndexUrlWins ==
    (Aggregated /\ aggOut.err = NoError /\ DeclaredUrls # <<>>) =>
        aggOut.spec.index_url = DeclaredUrls[1]

\* C13: when the sources declare canonically equal index URLs, the index URL
\* of the result is the one written by the last source that declares any; it
\* is canonically equal to the first one declared.
LastIndexUrlWins ==
    (Aggregated /\ aggOut.err = NoError) =>
        IF DeclaredUrls = <<>>
        THEN aggOut.spec.index_url = NoUrl
        ELSE /\ aggOut.spec.index_url = DeclaredUrls[Len(DeclaredUrls)]
             /\ CanonicalUrl(aggOut.spec.index_url) = CanonicalUrl(DeclaredUrls[1])

\* Two sources write the same index differently.
LastIndexUrlWinsWitness ==
    /\ Aggregated /\ aggOut.err = NoError
    /\ Len(DeclaredUrls) = 2
    /\ DeclaredUrls[1] # DeclaredUrls[2]
    /\ aggOut.spec.index_url = DeclaredUrls[2]

\* C14: on success the constraints are the nested constraints of the
\* requirement sources followed by the entries and nested constraints of the
\* constraint sources, and the requirements, editables and source trees are
\* those of the requirement sources alone.
ConstraintsUnion ==
    (Aggregated /\ aggOut.err = NoError) =>
        /\ aggOut.spec.constraints =
              Flat(aggIn.reqs, LAMBDA sp : sp.constraints)
              \o Flat(aggIn.cons, LAMBDA sp : sp.requirements \o sp.constraints)
        /\ aggOut.spec.requirements = Flat(aggIn.reqs, LAMBDA sp : sp.requirements)
        /\ aggOut.spec.editables = Flat(aggIn.reqs, LAMBDA sp : sp.editables)
        /\ aggOut.spec.source_trees = Flat(aggIn.reqs, LAMBDA sp : sp.source_trees)

\* A requirements file with a nested constraint and an editable, given both
\* as a requirement source and as a constraint source.
ConstraintsUnionWitness ==
    /\ Aggregated /\ aggOut.err = NoError
    /\ Len(aggIn.reqs) = 1 /\ Len(aggIn.cons) = 1
    /\ FromSource(aggIn.reqs[1]).constraints # <<>>
    /\ FromSource(aggIn.cons[1]).requirements # <<>>
    /\ FromSource(aggIn.cons[1]).constraints # <<>>
    /\ FromSource(aggIn.cons[1]).editables # <<>>
    /\ Len(aggOut.spec.constraints) = 3
    /\ Len(aggOut.spec.editables) = 1

\* C15: when a constraint source yields an unnamed entry, from_sources fails
\* and returns no specification, whatever the other sources hold.
UnnamedConstraintFatal ==
    (Aggregated /\ UnnamedInConstraints) =>
        /\ aggOut.err # NoError
        /\ aggOut.spec = EmptySpec

\* The only fault is the unnamed entry of the constraint source.
UnnamedConstraintFatalWitness ==
    /\ Aggregated /\ UnnamedInConstraints
    /\ aggIn.reqs # <<>>
    /\ ~UrlsDiffer
    /\ aggOut.err = UnnamedConstraint

\* C16 as stated: giving every source twice yields the same specification.
AggregateIdempotent ==
    aggPc = "twice" => aggTwice = aggOut

\* C16: giving every source twice yields the same failure, or a
\* specification with the same project, index URL and no-index flag in which
\* every list holds each of its entries twice as often.
AggregateTwiceDoubles ==
    aggPc = "twice" =>
        /\ aggTwice.err = aggOut.err
        /\ aggTwice.spec.project = aggOut.spec.project
        /\ aggTwice.spec.index_url = aggOut.spec.index_url
        /\ aggTwice.spec.no_index = aggOut.spec.no_index
        /\ Doubled(aggOut.spec.requirements, aggTwice.spec.requirements)
        /\ Doubled(aggOut.spec.constraints, aggTwice.spec.constraints)
        /\ Doubled(aggOut.spec.overrides, aggTwice.spec.overrides)
        /\ Doubled(aggOut.spec.editables, aggTwice.spec.editables)
        /\ Doubled(aggOut.spec.source_trees, aggTwice.spec.source_trees)
        /\ Doubled(aggOut.spec.extra_index_urls, aggTwice.spec.extra_index_urls)

\* Sources of all three kinds, aggregated once and twice.
AggregateTwiceWitness ==
    /\ aggPc = "twice"
    /\ aggOut.err = NoError
    /\ aggOut.spec.requirements # <<>>
    /\ aggOut.spec.overrides # <<>>
    /\ Len(aggTwice.spec.requirements) = 2 * Len(aggOut.spec.requirements)
    /\ aggTwice # aggOut

\* ------------------------------------------------------------------ parse_direct_pyproject_toml properties
Range(list) == {list[i] : i \in DOMAIN list}
EditableDeps(m) == {r.name : r \in {q \in Range(packages[m]) : q.editable}}

\* The workspace has the members A, B and C; A depends editable on B and B
\* depends editable on C, and there is no other editable dependency.
ChainABC ==
    /\ DOMAIN packages = Members
    /\ EditableDeps("A") = {"B"}
    /\ EditableDeps("B") = {"C"}
    /\ EditableDeps("C") = {}

\* C17 as stated: the editables are exactly {A, B, C}.
EditablesHoldProject ==
    (wsPc = "done" /\ ChainABC) =>
        /\ Range(editables) = {"A", "B", "C"}
        /\ Range(requirements) \cap Members = {}

\* C17: with A depending editable on B and B on C, the editables are
\* exactly {B, C}: the project A is not among its own editables; the
\* requirements hold none of A, B, C.
EditablesHoldDependencies ==
    (wsPc = "done" /\ ChainABC) =>
        /\ Range(editables) = {"B", "C"}
        /\ Range(requirements) \cap Members = {}

\* The chain was traversed to its end, with an ordinary requirement on the way.
EditablesHoldDependenciesWitness ==
    /\ wsPc = "done" /\ ChainABC
    /\ visits = [m \in Members |-> 1]
    /\ editables = <<"B", "C">>
    /\ requirements # <<>>

\* ------------------------------------------------------------------ Dist::from_url properties
Classifying == distPc = "done"
ViaHttp ==
    \/ distIn.op = "from_http_url"
    \/ distIn.op = "from_url" /\ distIn.kind = "Archive"
ViaFile ==
    \/ distIn.op = "from_file_url"
    \/ distIn.op = "from_url" /\ distIn.kind = "Path"
\* from_url passes `false` for the editable flag.
EditableGiven == distIn.op = "from_file_url" /\ distIn.editable
WheelExt == distIn.loc.ext \in {"whl", "WHL", "Whl"}
Built(tag) == Classified(tag, distIn.name, FALSE)

\* C18 as stated: an HTTP(S) locator with the wheel extension is a
\* DirectUrlBuilt of the requirement's name, or PackageNameMismatch when the
\* names differ; any other one is a DirectUrlSource of the requirement's name.
HttpBuiltOrMismatch ==
    (Classifying /\ ViaHttp) =>
        IF WheelExt
        THEN IF distIn.loc.parsed = distIn.name
             THEN distOut = Built("DirectUrlBuilt")
             ELSE distOut = DistError("PackageNameMismatch")
        ELSE distOut = Built("DirectUrlSource")

\* C18: an HTTP(S) locator whose path ends, case-insensitively, in the wheel
\* extension is a DirectUrlBuilt of the requirement's name when its file name
\* is a wheel file name with that name, PackageNameMismatch when it is a
\* wheel file name with another name, and the wheel file name error when it
\* is no wheel file name; any other locator is a DirectUrlSource of the
\* requirement's name.
HttpBuiltMismatchOrFilename ==
    (Classifying /\ ViaHttp) =>
        IF WheelExt
        THEN IF distIn.loc.parsed = NoParse
             THEN distOut = DistError("WheelFilename")
             ELSE IF distIn.loc.parsed = distIn.name
             THEN distOut = Built("DirectUrlBuilt")
             ELSE distOut = DistError("PackageNameMismatch")
        ELSE distOut = Built("DirectUrlSource")

\* An upper-case wheel extension, classified through from_url.
HttpBuiltWitness ==
    /\ Classifying
    /\ distIn.op = "from_url" /\ distIn.kind = "Archive"
    /\ distIn.loc.ext = "WHL"
    /\ distOut = Built("DirectUrlBuilt")

\* C19 as stated: a file:// locator is NotFound when missing, a
\* DirectorySource with the flag as given when a directory, a PathBuilt when
\* a wheel file and a PathSource when any other file.
FileFourOutcomes ==
    (Classifying /\ ViaFile) =>
        /\ distIn.loc.fs = "missing" => distOut = DistError("NotFound")
        /\ distIn.loc.fs = "dir" =>
              distOut = Classified("DirectorySource", distIn.name, EditableGiven)
        /\ (distIn.loc.fs = "file" /\ WheelExt) => distOut = Built("PathBuilt")
        /\ (distIn.loc.fs = "file" /\ ~WheelExt) => distOut = Built("PathSource")
        /\ distOut.tag \in {"NotFound", "DirectorySource", "PathBuilt", "PathSource"}

\* C19: a file:// locator is NotFound when the path does not exist and the
\* I/O error when it cannot be canonicalized for another reason; a
\* DirectorySource with the flag as given when a directory; for a wheel file
\* the wheel file name error, PackageNameMismatch, EditableFile (in this
\* order) or else a PathBuilt; for any other file EditableFile or else a
\* PathSource.  Exactly one of these results for every input.
FileOutcomes ==
    (Classifying /\ ViaFile) =>
        distOut =
            CASE distIn.loc.fs = "missing" -> DistError("NotFound")
              [] distIn.loc.fs = "denied" -> DistError("Io")
              [] distIn.loc.fs = "dir" ->
                    Classified("DirectorySource", distIn.name, EditableGiven)
              [] distIn.loc.fs = "file" /\ WheelExt ->
                    IF distIn.loc.parsed = NoParse THEN DistError("WheelFilename")
                    ELSE IF distIn.loc.parsed # distIn.name
                    THEN DistError("PackageNameMismatch")
                    ELSE IF EditableGiven THEN DistError("EditableFile")
                    ELSE Built("PathBuilt")
              [] distIn.loc.fs = "file" /\ ~WheelExt ->
                    IF EditableGiven THEN DistError("EditableFile")
                    ELSE Built("PathSource")

\* An editable directory.
FileOutcomesWitness ==
    /\ Classifying
    /\ distIn.op = "from_file_url"
    /\ distIn.loc.fs = "dir"
    /\ distIn.editable
    /\ distOut = Classified("DirectorySource", distIn.name, TRUE)

\* C20: every classification of an existing non-directory path with the
\* editable flag set returns EditableFile, and no operation returns an
\* editable distribution for a path that is not a directory.
EditableOnlyOnDirectories ==
    Classifying =>
        /\ (distIn.op = "from_file_url" /\ distIn.editable /\ distIn.loc.fs = "file") =>
              distOut = DistError("EditableFile")
        /\ (distOut.ok /\ distOut.editable) => distIn.loc.fs = "dir"

\* ------------------------------------------------------------------ Identifier properties
IdsComputed == idPc \in {"done", "again"}
IsRegistry(dist) == dist.variant \in RegistryVariants
Artifact(dist) == dist.files[dist.best]
DigestKey(h) == Id("Digest", h, "")

\* C21 as stated: a registry artifact is keyed by its first digest when it
\* has any, else by its canonicalized URL, and a local file by its path.
RegistryIdCanonicalUrl ==
    (IdsComputed /\ IsRegistry(idIn[1])) =>
        LET f == Artifact(idIn[1])
        IN  idOut[1].distribution =
                IF f.hashes # <<>> THEN DigestKey(f.hashes[1])
                ELSE IF f.url.kind = "Path" THEN Id("PathBuf", f.url.path, "")
                ELSE Id("Url", CanonicalUrl(f.url.url), "")

\* C21: a registry artifact is keyed by its first declared digest when it has
\* any, whatever its URL; without a digest it is keyed by its location as
\* written, not canonicalized: the base and the URL of a relative location,
\* the URL of an absolute one, the path of a local file.
RegistryIdVerbatimUrl ==
    (IdsComputed /\ IsRegistry(idIn[1])) =>
        LET f == Artifact(idIn[1])
            key == IF f.hashes # <<>> THEN DigestKey(f.hashes[1])
                   ELSE IF f.url.kind = "Path" THEN Id("PathBuf", f.url.path, "")
                   ELSE IF f.url.kind = "AbsoluteUrl" THEN Id("AbsoluteUrl", f.url.url, "")
                   ELSE Id("RelativeUrl", f.url.base, f.url.url)
        IN  /\ idOut[1].distribution = key
            /\ idOut[1].resource = key

\* Two registry wheels with the same first digest among several and
\* different URLs have the same key.
RegistryIdWitness ==
    /\ IdsComputed
    /\ IsRegistry(idIn[1]) /\ IsRegistry(idIn[2])
    /\ Len(Artifact(idIn[1]).hashes) = 2
    /\ Artifact(idIn[1]).hashes[1] # Artifact(idIn[1]).hashes[2]
    /\ Artifact(idIn[2]).hashes # <<>>
    /\ Artifact(idIn[1]).hashes[1] = Artifact(idIn[2]).hashes[1]
    /\ Artifact(idIn[1]).url # Artifact(idIn[2]).url
    /\ idOut[1] = idOut[2]

\* The URL a distribution's identity may read, as written.
WrittenUrl(dist) == IF IsRegistry(dist) THEN Artifact(dist).url.url ELSE dist.url

\* The two distributions are alike but for cosmetic differences of their URLs.
CosmeticallyEqual(d, e) ==
    /\ d.variant = e.variant
    /\ CanonicalUrl(WrittenUrl(d)) = CanonicalUrl(WrittenUrl(e))
    /\ IsRegistry(d) =>
          /\ Artifact(d).hashes = Artifact(e).hashes
          /\ Artifact(d).url.kind = Artifact(e).url.kind
          /\ Artifact(d).url.base = Artifact(e).url.base
          /\ Artifact(d).url.path = Artifact(e).url.path

KeyedByUrlAsWritten(d) ==
    /\ IsRegistry(d)
    /\ Artifact(d).hashes = <<>>
    /\ Artifact(d).url.kind # "Path"

\* C22 as stated: distributions of any variant whose URLs differ only
\* cosmetically have equal identities, and the identity of one distribution
\* is the same when computed twice.
IdentityIgnoresCosmetics ==
    /\ (IdsComputed /\ CosmeticallyEqual(idIn[1], idIn[2])) => idOut[1] = idOut[2]
    /\ idPc = "again" => idAgain = idOut[1]

\* C22: distributions whose URLs differ only cosmetically have equal
\* identities when they are URL-based or carry a digest; registry
\* distributions without a digest have equal identities only when their
\* URLs are written alike.  The identity of one distribution is the same
\* when computed twice.
IdentityIgnoresCosmeticsOfUrlDists ==
    /\ (IdsComputed /\ CosmeticallyEqual(idIn[1], idIn[2])) =>
          IF KeyedByUrlAsWritten(idIn[1])
          THEN idOut[1] = idOut[2] <=> WrittenUrl(idIn[1]) = WrittenUrl(idIn[2])
          ELSE idOut[1] = idOut[2]
    /\ idPc = "again" => idAgain = idOut[1]

\* Two direct URL distributions written differently, computed twice.
IdentityIgnoresCosmeticsWitness ==
    /\ idPc = "again"
    /\ idIn[1].variant = "DirectUrlSource"
    /\ CosmeticallyEqual(idIn[1], idIn[2])
    /\ idIn[1].url # idIn[2].url
    /\ idOut[1] = idOut[2]
    /\ idAgain = idOut[1]

\* ------------------------------------------------------------------ ProjectWorkspace::discover properties
DiscoveryDone == discPc \in {"done", "again"}
AncestorsWithManifest == SelectSeq(Ancestors(start), LAMBDA d : fs[d].exists)
AncestorsWithProject == SelectSeq(Ancestors(start), LAMBDA d : fs[d].project # NoProject)
NearestLacksProject ==
    /\ AncestorsWithManifest # <<>>
    /\ fs[AncestorsWithManifest[1]].project = NoProject

\* C23 as stated: the project root is the first ancestor whose manifest has
\* a project section, nearer manifests without one being skipped, and
\* MissingPyprojectToml is returned only when no ancestor has such a manifest.
DiscoverSkipsProjectless ==
    DiscoveryDone =>
        /\ discOut.err = "MissingPyprojectToml" => AncestorsWithProject = <<>>
        /\ AncestorsWithProject # <<>> =>
              /\ discOut.ok => discOut.project_root = AncestorsWithProject[1]
              /\ NearestLacksProject =>
                    ~(discOut.err = "MissingProject" /\ discOut.at = AncestorsWithManifest[1])

\* C23: discovery takes the first ancestor that holds a manifest at all; it
\* is the project root when that manifest has a project section, and
\* discovery fails with MissingProject when it has none, whatever the
\* ancestors above hold; it fails with MissingPyprojectToml exactly when no
\* ancestor holds a manifest.
DiscoverNearestManifest ==
    DiscoveryDone =>
        /\ discOut.err = "MissingPyprojectToml" <=> AncestorsWithManifest = <<>>
        /\ NearestLacksProject =>
              (discOut.err = "MissingProject" /\ discOut.at = AncestorsWithManifest[1])
        /\ discOut.ok =>
              /\ discOut.project_root = AncestorsWithManifest[1]
              /\ discOut.project_name = fs[discOut.project_root].project

\* Discovery from a directory without a manifest finds the project above it.
DiscoverNearestManifestWitness ==
    /\ DiscoveryDone
    /\ start = "S"
    /\ discOut.ok
    /\ discOut.project_root = "A"
    /\ discOut.root = "W"

ProjectDir == discOut.project_root
Above == Tail(Ancestors(ProjectDir))
WorkspacesAbove == SelectSeq(Above, LAMBDA d : fs[d].workspace)
ManifestsAbove == SelectSeq(Above, LAMBDA d : fs[d].exists)
StandsAlone ==
    /\ discOut.root = ProjectDir
    /\ discOut.packages = Insert(NoPackages, discOut.project_name, ProjectDir)
    /\ discOut.sources = {}

\* C24 as stated: for a project without a workspace section the workspace
\* root is the first ancestor above it that declares a workspace, unless the
\* project is excluded from it; then the project stands alone.
WorkspaceRootFirstDeclaring ==
    (DiscoveryDone /\ discOut.ok /\ ~fs[ProjectDir].workspace /\ WorkspacesAbove # <<>>) =>
        IF ProjectDir \in fs[WorkspacesAbove[1]].exclude
        THEN StandsAlone
        ELSE discOut.root = WorkspacesAbove[1]

\* C24: for a project without a workspace section only the nearest manifest
\* above it is looked at: when it declares a workspace that does not exclude
\* the project it is the workspace root; when it excludes the project, when
\* it has a project section but no workspace section, or when there is no
\* manifest above, the project stands alone; when it has neither section
\* discovery fails with MissingProject.
WorkspaceRootNearestManifest ==
    /\ (DiscoveryDone /\ discOut.ok /\ ~fs[ProjectDir].workspace) =>
          IF /\ ManifestsAbove # <<>>
             /\ fs[ManifestsAbove[1]].workspace
             /\ ProjectDir \notin fs[ManifestsAbove[1]].exclude
          THEN discOut.root = ManifestsAbove[1]
          ELSE StandsAlone
    /\ (DiscoveryDone /\ discOut.ok /\ ~fs[ProjectDir].workspace /\ ManifestsAbove # <<>>) =>
          (fs[ManifestsAbove[1]].workspace \/ fs[ManifestsAbove[1]].project # NoProject)

\* A project excluded from the workspace above it stands alone.
WorkspaceRootWitness ==
    /\ DiscoveryDone /\ discOut.ok
    /\ ProjectDir = "A"
    /\ fs["W"].workspace
    /\ "A" \in fs["W"].exclude
    /\ fs["W"].members # <<>>
    /\ StandsAlone

\* C25: a directory matched by an exclude glob of the workspace is never
\* among the roots of the member map.
ExcludedNeverMember ==
    (DiscoveryDone /\ discOut.ok) =>
        \A d \in fs[discOut.root].exclude : d \notin MemberRoots(discOut)

\* The members a workspace root declares: its own project when it has one,
\* and the directories its member globs yield and its exclude globs do not.
DeclaredMembers(root) ==
    {d \in {root} : fs[d].project # NoProject}
    \cup ({fs[root].members[i] : i \in DOMAIN fs[root].members} \ fs[root].exclude)

ProjectInMemberMap ==
    (DiscoveryDone /\ discOut.ok) =>
        /\ discOut.project_name \in DOMAIN discOut.packages
        /\ discOut.packages[discOut.project_name] = discOut.project_root

\* ------------------------------------------------------------------ change report: properties
ReportDone == repPc = "done"
RemovedDists == {(repIn.extraneous \o repIn.reinstalls)[i] :
                   i \in DOMAIN (repIn.extraneous \o repIn.reinstalls)}
LinkedWheels == {repIn.wheels[i] : i \in DOMAIN repIn.wheels}
EventCount(d, kind) ==
    Cardinality({i \in DOMAIN repOut : repOut[i] = ChangeEvent(d, kind)})

\* C27: the change report is ordered by package name ascending, then removals
\* before additions of the same name, then by installed version; every
\* uninstalled distribution has exactly one Removed event and every linked
\* wheel exactly one Added event, and there are no other events.
ChangeReportOrdered ==
    ReportDone =>
        /\ \A i, j \in DOMAIN repOut :
              i < j =>
                LET a == repOut[i]
                    b == repOut[j]
                IN  /\ NameOf(a.dist) = "b" => NameOf(b.dist) = "b"
                    /\ NameOf(a.dist) = NameOf(b.dist) =>
                          /\ a.kind = Added => b.kind = Added
                          /\ a.kind = b.kind => VerOf(a.dist) <= VerOf(b.dist)
        /\ \A d \in RemovedDists : EventCount(d, Removed) = 1
        /\ \A w \in LinkedWheels : EventCount(w, Added) = 1
        /\ Len(repOut) = Cardinality(RemovedDists) + Cardinality(LinkedWheels)

\* A report in which all three keys decide: two removals of one name at
\* different versions, an addition of that name, an event of the other name,
\* from vectors that were not in that order.
ChangeReportOrderedWitness ==
    /\ ReportDone
    /\ \E i, j, k, l \in DOMAIN repOut :
          /\ i < j /\ j < k
          /\ repOut[i].kind = Removed /\ repOut[j].kind = Removed
          /\ repOut[k].kind = Added
          /\ NameOf(repOut[i].dist) = NameOf(repOut[j].dist)
          /\ NameOf(repOut[j].dist) = NameOf(repOut[k].dist)
          /\ VerOf(repOut[i].dist) < VerOf(repOut[j].dist)
          /\ NameOf(repOut[l].dist) # NameOf(repOut[i].dist)
    /\ repOut # EventsOf(repIn.extraneous \o repIn.reinstalls, Removed)
                 \o EventsOf(repIn.wheels, Added)

\* ------------------------------------------------------------------ parse_direct_pyproject_toml: traversal
DependsOn(m, n) ==
    /\ m \in DOMAIN packages
    /\ \E i \in DOMAIN packages[m] : packages[m][i] = EditablePath(n)

\* C28: the traversal of workspace-internal editable references terminates,
\* also when a member depends on itself or members depend on each other in a
\* cycle, and the metadata of each member is processed at most once.
TraversalTerminates ==
    /\ <>(wsPc = "done")
    /\ [](\A m \in DOMAIN visits : visits[m] <= 1)

\* The traversal of a workspace in which the project depends on itself and is
\* in a cycle with another member has returned.
TraversalTerminatesWitness ==
    /\ wsPc = "done"
    /\ DependsOn("A", "A")
    /\ DependsOn("A", "B") /\ DependsOn("B", "A")
    /\ visits["A"] = 1 /\ visits["B"] = 1

\* C29: the editables hold no two entries for the same member, and every
\* requirement of a processed member that is not an editable path requirement
\* is among the ordinary requirements.
EditablesUnique ==
    wsPc = "done" =>
        /\ \A i, j \in DOMAIN editables : editables[i] = editables[j] => i = j
        /\ \A m \in DOMAIN packages :
              visits[m] > 0 =>
                \A i \in DOMAIN packages[m] :
                    ~packages[m][i].editable =>
                        packages[m][i].name \in Range(requirements)

====
